---- MODULE Spec2Model ----
(***************************************************************************)
(* A model of Scrabbler's word engine: the Dictionary (word store, loader, *)
(* rack searches, pattern search, category queries), the SearchManager     *)
(* (anagrams, extensions) and the helpers of utils.js they use.            *)
(*                                                                         *)
(* A JavaScript string is modelled as a sequence of one-character strings  *)
(* (<<"C","A","T">> is "CAT"); a JavaScript Set is modelled as a sequence  *)
(* without repetitions, in insertion order, which is the order a for-of    *)
(* loop visits it in.                                                      *)
(***************************************************************************)
EXTENDS Integers, Sequences, FiniteSets, TLC

VARIABLES
    words,      \* Dictionary.words: the Set of words, in insertion order
    loaded,     \* Dictionary.loaded
    loading,    \* Dictionary.loading
    pc,         \* per caller of load(): where its async call stands
    call,       \* the last operation invoked, with its arguments
    ret         \* what that operation returned

vars == <<words, loaded, loading, pc, call, ret>>

(***************************************************************************)
(* Bounds of the model.                                                    *)
(***************************************************************************)
MaxRack == 3        \* longest enumerated rack of findWords
MaxFilterRack == 2  \* longest enumerated rack of findWordsWithFilters
MaxPatternRack == 2 \* longest enumerated rack of findPatternMatches
PatternLen == 3     \* slots of the enumerated patterns
MaxMinLength == 3   \* largest minLength argument
MaxTarget == 3      \* longest target of the canForm functions
MaxPool == 3        \* longest rack handed to the canForm functions
MaxBoard == 2       \* longest free (board) pool
MaxWild == 2        \* most wildcards handed to the canForm functions
CapWidth == 15      \* letters the large vocabulary is built from

(***************************************************************************)
(* Strings.                                                                *)
(***************************************************************************)
ALPHABET ==
    << "A", "B", "C", "D", "E", "F", "G", "H", "I", "J", "K", "L", "M",
       "N", "O", "P", "Q", "R", "S", "T", "U", "V", "W", "X", "Y", "Z" >>

LowerCase ==
    << "a", "b", "c", "d", "e", "f", "g", "h", "i", "j", "k", "l", "m",
       "n", "o", "p", "q", "r", "s", "t", "u", "v", "w", "x", "y", "z" >>

Range(s) == { s[i] : i \in 1..Len(s) }

SeqsUpTo(S, n) == UNION { [1..k -> S] : k \in 0..n }

\* Array.prototype.indexOf / String.prototype.indexOf of one character:
\* the first position (from 1) of x in s, 0 when absent (JavaScript's -1).
IndexOf(s, x) ==
    IF x \in Range(s)
    THEN CHOOSE i \in 1..Len(s) : s[i] = x /\ \A j \in 1..(i - 1) : s[j] # x
    ELSE 0

\* splice(index, 1): s without its element at position i.
RemoveAt(s, i) == SubSeq(s, 1, i - 1) \o SubSeq(s, i + 1, Len(s))

\* Set.prototype.add on an insertion-ordered set.
SetAdd(s, x) == IF x \in Range(s) THEN s ELSE Append(s, x)

ToUpperChar(c) ==
    IF c \in Range(LowerCase) THEN ALPHABET[IndexOf(LowerCase, c)] ELSE c

\* String.prototype.toUpperCase
ToUpper(s) == [i \in 1..Len(s) |-> ToUpperChar(s[i])]

IsSpace(c) == c = " "

RECURSIVE TrimLeft(_)
TrimLeft(s) ==
    IF s # <<>> /\ IsSpace(Head(s)) THEN TrimLeft(Tail(s)) ELSE s

RECURSIVE TrimRight(_)
TrimRight(s) ==
    IF s # <<>> /\ IsSpace(s[Len(s)])
    THEN TrimRight(SubSeq(s, 1, Len(s) - 1))
    ELSE s

\* String.prototype.trim
Trim(s) == TrimRight(TrimLeft(s))

\* String.prototype.startsWith / endsWith / includes
StartsWith(w, p) == Len(p) <= Len(w) /\ SubSeq(w, 1, Len(p)) = p

EndsWith(w, p) ==
    Len(p) <= Len(w) /\ SubSeq(w, Len(w) - Len(p) + 1, Len(w)) = p

Includes(w, p) ==
    \E k \in 0..(Len(w) - Len(p)) : SubSeq(w, k + 1, k + Len(p)) = p

\* String.prototype.localeCompare on words of A-Z: negative, zero or
\* positive as a sorts before, with or after b (alphabetical order, a
\* proper prefix first).
RECURSIVE LocaleCompare(_, _)
LocaleCompare(a, b) ==
    IF a = <<>> /\ b = <<>> THEN 0
    ELSE IF a = <<>> THEN -1
    ELSE IF b = <<>> THEN 1
    ELSE IF Head(a) = Head(b) THEN LocaleCompare(Tail(a), Tail(b))
    ELSE IF IndexOf(ALPHABET, Head(a)) < IndexOf(ALPHABET, Head(b)) THEN -1
    ELSE 1

\* Array.prototype.sort(cmp): a stable sort. cmp[i][j] is what the
\* comparator gives for s[i] and s[j]. Element i of s goes to the place
\* given by the number of elements that sort before it, or sort with it and
\* stand before it in s.
StableSort(s, cmp) ==
    LET n == Len(s)
        rank == SubSeq([i \in 1..n |->
                           Cardinality({ j \in 1..n :
                               \/ cmp[j][i] < 0
                               \/ cmp[j][i] = 0 /\ j < i })], 1, n)
        from == SubSeq([k \in 1..n |-> CHOOSE i \in 1..n : rank[i] = k - 1],
                       1, n)
    IN  SubSeq([k \in 1..n |-> s[from[k]]], 1, n)

(***************************************************************************)
(* utils.js: the letter values.                                            *)
(***************************************************************************)
LETTER_POINTS ==
    [c \in Range(ALPHABET) |->
        CASE c \in {"A", "E", "I", "L", "N", "O", "R", "S", "T", "U"} -> 1
          [] c \in {"D", "G"} -> 2
          [] c \in {"B", "C", "M", "P"} -> 3
          [] c \in {"F", "H", "V", "W", "Y"} -> 4
          [] c = "K" -> 5
          [] c \in {"J", "X"} -> 8
          [] c \in {"Q", "Z"} -> 10]

LetterValue(c) == IF c \in DOMAIN LETTER_POINTS THEN LETTER_POINTS[c] ELSE 0

RECURSIVE SumValues(_)
SumValues(s) ==
    IF s = <<>> THEN 0 ELSE LetterValue(Head(s)) + SumValues(Tail(s))

calculateWordPoints(word) == SumValues(ToUpper(word))

(***************************************************************************)
(* utils.js: getPermutations and getCombinations. Both fill a Set of       *)
(* strings; the recursive helpers give the strings they add, in order,     *)
(* and the Set is what adding them one by one leaves.                      *)
(***************************************************************************)
\* results.add(x) for each x of adds in turn: the Set keeps the first
\* occurrence of every string, in order.
AddAll(results, adds) ==
    LET all == results \o adds
        first == { i \in 1..Len(all) : \A j \in 1..(i - 1) : all[j] # all[i] }
        kept == SelectSeq([i \in 1..Len(all) |-> i], LAMBDA i : i \in first)
    IN  [k \in 1..Len(kept) |-> all[kept[k]]]

RECURSIVE permute(_, _), permuteFrom(_, _, _)
\* permute(arr, current) of getPermutations: the strings it adds.
permute(arr, current) ==
    (IF Len(current) > 0 THEN <<current>> ELSE <<>>)
        \o (IF Len(arr) = 0 THEN <<>> ELSE permuteFrom(arr, current, 1))

\* The for loop of permute, from position i of arr on.
permuteFrom(arr, current, i) ==
    IF i > Len(arr) THEN <<>>
    ELSE permute(RemoveAt(arr, i), Append(current, arr[i]))
             \o permuteFrom(arr, current, i + 1)

getPermutations(letters) == AddAll(<<>>, permute(letters, <<>>))

RECURSIVE combine(_, _, _, _), combineFrom(_, _, _, _)
\* combine(index, current, remaining) of getCombinations (index from 1):
\* the strings it adds.
combine(index, current, remaining, minLength) ==
    (IF Len(current) >= minLength
     THEN SelectSeq(getPermutations(current),
                    LAMBDA p : Len(p) >= minLength)
     ELSE <<>>)
        \o combineFrom(index, current, remaining, minLength)

\* The for loop of combine, from position i of remaining on.
combineFrom(i, current, remaining, minLength) ==
    IF i > Len(remaining) THEN <<>>
    ELSE combine(i + 1, Append(current, remaining[i]), remaining, minLength)
             \o combineFrom(i + 1, current, remaining, minLength)

\* The orders of the whole rack only, and no shorter selection of it.
getCombinationsOfWholeRack(letters, minLength) ==
    SelectSeq(getPermutations(ToUpper(letters)),
              LAMBDA p : Len(p) = Len(letters) /\ Len(p) >= minLength)

getCombinations(letters, minLength) ==
    AddAll(<<>>, combine(1, <<>>, ToUpper(letters), minLength))

(***************************************************************************)
(* Dictionary: the canForm functions.                                      *)
(***************************************************************************)
RECURSIVE canFormWordFrom(_, _, _, _, _)
canFormWordFrom(word, i, available, wildcardsNeeded, wildcards) ==
    IF i > Len(word) THEN TRUE
    ELSE LET index == IndexOf(available, word[i])
         IN  IF index # 0
             THEN canFormWordFrom(word, i + 1, RemoveAt(available, index),
                                  wildcardsNeeded, wildcards)
             ELSE IF wildcardsNeeded + 1 > wildcards THEN FALSE
             ELSE canFormWordFrom(word, i + 1, available,
                                  wildcardsNeeded + 1, wildcards)

canFormWord(word, letters, wildcards) ==
    canFormWordFrom(word, 1, letters, 0, wildcards)

RECURSIVE canFormWordWithBoardFrom(_, _, _, _, _, _)
\* The for loop of canFormWordWithBoard, from character i of word on.
canFormWordWithBoardFrom(word, i, availableRack, availableBoard, wildcardsNeeded, wildcards) ==
    IF i > Len(word) THEN TRUE
    ELSE LET char == word[i]
             boardIndex == IndexOf(availableBoard, char)
             rackIndex == IndexOf(availableRack, char)
         IN  IF boardIndex # 0
             THEN canFormWordWithBoardFrom(word, i + 1, availableRack,
                      RemoveAt(availableBoard, boardIndex),
                      wildcardsNeeded, wildcards)
             ELSE IF rackIndex # 0
             THEN canFormWordWithBoardFrom(word, i + 1,
                      RemoveAt(availableRack, rackIndex), availableBoard,
                      wildcardsNeeded, wildcards)
             ELSE IF wildcardsNeeded + 1 > wildcards THEN FALSE
             ELSE canFormWordWithBoardFrom(word, i + 1, availableRack,
                      availableBoard, wildcardsNeeded + 1, wildcards)

\* A variant that starts its count of wildcards at 1.
canFormWordWithBoardCountsFromOne(word, rackLetters, wildcards, boardLetters) ==
    canFormWordWithBoardFrom(word, 1, rackLetters, boardLetters, 1, wildcards)

\* Neither pool is used up: a letter that the board or the rack holds is
\* covered however often the word has it.
canFormWordWithBoardReusingLetters(word, rackLetters, wildcards, boardLetters) ==
    Len(SelectSeq(word, LAMBDA char : /\ IndexOf(boardLetters, char) = 0
                                      /\ IndexOf(rackLetters, char) = 0))
        <= wildcards

\* The board letters are not counted as free.
canFormWordIgnoringBoard(word, rackLetters, wildcards, boardLetters) ==
    canFormWord(word, rackLetters, wildcards)

canFormWordWithBoard(word, rackLetters, wildcards, boardLetters) ==
    canFormWordWithBoardFrom(word, 1, rackLetters, boardLetters, 0, wildcards)

RECURSIVE canFormFromRackFrom(_, _, _, _, _)
canFormFromRackFrom(needed, i, availableArr, wildcardsUsed, wildcards) ==
    IF i > Len(needed) THEN TRUE
    ELSE LET index == IndexOf(availableArr, needed[i])
         IN  IF index # 0
             THEN canFormFromRackFrom(needed, i + 1,
                      RemoveAt(availableArr, index), wildcardsUsed, wildcards)
             ELSE IF wildcardsUsed + 1 > wildcards THEN FALSE
             ELSE canFormFromRackFrom(needed, i + 1, availableArr,
                      wildcardsUsed + 1, wildcards)

\* A rack whose letters are not used up: each needed letter that the rack
\* holds is covered, however often it is needed.
canFormFromRackReusingLetters(needed, available, wildcards) ==
    Len(SelectSeq(needed, LAMBDA letter : IndexOf(available, letter) = 0))
        <= wildcards

\* A negative number of wildcards is refused.
canFormFromRackRefusingNegative(needed, available, wildcards) ==
    wildcards >= 0 /\ canFormFromRackFrom(needed, 1, available, 0, wildcards)

canFormFromRack(needed, available, wildcards) ==
    canFormFromRackFrom(needed, 1, available, 0, wildcards)

\* The values that the wildcard counter of a canForm function takes, from
\* its initialisation on, while the loop runs from character i of word:
\* wildcardsNeeded of canFormWord, of canFormWordWithBoard once the board
\* letters are set aside, and wildcardsUsed of canFormFromRack.
RECURSIVE canFormWordCounter(_, _, _, _, _)
canFormWordCounter(word, i, available, wildcardsNeeded, wildcards) ==
    IF i > Len(word) THEN <<wildcardsNeeded>>
    ELSE LET index == IndexOf(available, word[i])
         IN  IF index # 0
             THEN canFormWordCounter(word, i + 1, RemoveAt(available, index),
                                     wildcardsNeeded, wildcards)
             ELSE IF wildcardsNeeded + 1 > wildcards
             THEN <<wildcardsNeeded, wildcardsNeeded + 1>>
             ELSE <<wildcardsNeeded>>
                      \o canFormWordCounter(word, i + 1, available,
                                            wildcardsNeeded + 1, wildcards)

RECURSIVE canFormWordWithBoardCounter(_, _, _, _, _, _)
canFormWordWithBoardCounter(word, i, availableRack, availableBoard, wildcardsNeeded, wildcards) ==
    IF i > Len(word) THEN <<wildcardsNeeded>>
    ELSE LET char == word[i]
             boardIndex == IndexOf(availableBoard, char)
             rackIndex == IndexOf(availableRack, char)
         IN  IF boardIndex # 0
             THEN canFormWordWithBoardCounter(word, i + 1, availableRack,
                      RemoveAt(availableBoard, boardIndex),
                      wildcardsNeeded, wildcards)
             ELSE IF rackIndex # 0
             THEN canFormWordWithBoardCounter(word, i + 1,
                      RemoveAt(availableRack, rackIndex), availableBoard,
                      wildcardsNeeded, wildcards)
             ELSE IF wildcardsNeeded + 1 > wildcards
             THEN <<wildcardsNeeded, wildcardsNeeded + 1>>
             ELSE <<wildcardsNeeded>>
                      \o canFormWordWithBoardCounter(word, i + 1,
                             availableRack, availableBoard,
                             wildcardsNeeded + 1, wildcards)

(***************************************************************************)
(* Dictionary: the store and its queries. `this` is the Dictionary object: *)
(* a record of its fields words, loaded and loading.                       *)
(***************************************************************************)
Dictionary == [words |-> words, loaded |-> loaded, loading |-> loading]

\* {word, points} of a word
Entry(word) == [word |-> word, points |-> calculateWordPoints(word)]

\* the entries of the words ws, as a tuple
Entries(ws) == SubSeq([i \in 1..Len(ws) |-> Entry(ws[i])], 1, Len(ws))

\* The store answers from whatever words it holds, loaded or not.
isValidWithoutLoadedTest(this, word) == ToUpper(word) \in Range(this.words)

isValid(this, word) ==
    IF ~this.loaded THEN FALSE ELSE ToUpper(word) \in Range(this.words)

validate(this, word) ==
    LET upperWord == ToUpper(word)
        valid == isValid(this, upperWord)
    IN  [valid |-> valid, word |-> upperWord,
         points |-> IF valid THEN calculateWordPoints(upperWord) ELSE 0]

\* The comparator without its second key: points descending, then
\* alphabetically.
CompareRackResultsWithoutLength(a, b) ==
    IF b.points # a.points THEN b.points - a.points
    ELSE LocaleCompare(a.word, b.word)

\* The comparator of findWords and findWordsWithFilters: points
\* descending, then word length descending, then alphabetically.
CompareRackResults(a, b) ==
    IF b.points # a.points THEN b.points - a.points
    ELSE IF Len(b.word) # Len(a.word) THEN Len(b.word) - Len(a.word)
    ELSE LocaleCompare(a.word, b.word)

\* validWords.sort(...) of the rack searches
SortRackResults(s) ==
    StableSort(s, [i \in 1..Len(s) |-> [j \in 1..Len(s) |-> CompareRackResults(s[i], s[j])]])

RECURSIVE RemoveDuplicatesFrom(_, _, _)
\* validWords.filter(w => { if (seen.has(w.word)) return false; ... })
RemoveDuplicatesFrom(validWords, i, seen) ==
    IF i > Len(validWords) THEN <<>>
    ELSE IF validWords[i].word \in seen
    THEN RemoveDuplicatesFrom(validWords, i + 1, seen)
    ELSE <<validWords[i]>> \o
         RemoveDuplicatesFrom(validWords, i + 1,
                              seen \cup {validWords[i].word})

\* Every combination is returned, in the vocabulary or not.
findWordsOfAllCombinations(this, letters, minLength) ==
    IF ~this.loaded THEN <<>>
    ELSE RemoveDuplicatesFrom(
             SortRackResults(Entries(getCombinations(letters, minLength))),
             1, {})

findWords(this, letters, minLength) ==
    IF ~this.loaded THEN <<>>
    ELSE LET combinations == getCombinations(letters, minLength)
             validWords ==
                 Entries(SelectSeq(combinations,
                              LAMBDA combo : combo \in Range(this.words)))
             sorted == SortRackResults(validWords)
         IN  RemoveDuplicatesFrom(sorted, 1, {})

\* The wildcards of the rack are not counted.
CountNoWildcards(letters) == 0

\* (letters.match(/\?/g) || []).length
CountWildcards(letters) == Len(SelectSeq(letters, LAMBDA c : c = "?"))

\* The rack without its wildcards, in the case it was typed in.
RegularLettersAsTyped(letters) == SelectSeq(letters, LAMBDA c : c # "?")

\* letters.replace(/\?/g, '').toUpperCase()
RegularLetters(letters) == ToUpper(SelectSeq(letters, LAMBDA c : c # "?"))

\* The ceiling on the results of a filter-only search.
FilterOnlyLimit == 200

\* A filter-only search that returns all it found.
ReturnAll(validWords, filterOnlySearch) == validWords

\* if (filterOnlySearch && validWords.length > 200)
\*     return validWords.slice(0, 200); return validWords;
LimitFilterOnly(validWords, filterOnlySearch) ==
    IF filterOnlySearch /\ Len(validWords) > FilterOnlyLimit
    THEN SubSeq(validWords, 1, FilterOnlyLimit)
    ELSE validWords

findWordsWithFilters(this, letters, minLength, filters) ==
    IF ~this.loaded THEN <<>>
    ELSE LET startsUpper == ToUpper(filters.startsWith)
             endsUpper == ToUpper(filters.endsWith)
             containsUpper == ToUpper(filters.contains)
             wildcardCount == CountWildcards(letters)
             regularLetters == RegularLetters(letters)
             filterOnlySearch ==
                 Len(regularLetters) = 0 /\ wildcardCount = 0
             boardLetters == startsUpper \o endsUpper \o containsUpper
             Keep(word) ==
                 /\ ~(Len(word) < minLength)
                 /\ ~(startsUpper # <<>> /\ ~StartsWith(word, startsUpper))
                 /\ ~(endsUpper # <<>> /\ ~EndsWith(word, endsUpper))
                 /\ ~(containsUpper # <<>> /\ ~Includes(word, containsUpper))
                 /\ \/ filterOnlySearch
                    \/ canFormWordWithBoard(word, regularLetters,
                                            wildcardCount, boardLetters)
             validWords == Entries(SelectSeq(this.words, Keep))
             sorted == SortRackResults(validWords)
         IN  LimitFilterOnly(sorted, filterOnlySearch)

(***************************************************************************)
(* Dictionary: the pattern search. Slot positions count from 0, as in the  *)
(* source; pattern and lockedEmpty are arrays of the same length.          *)
(***************************************************************************)
At(arr, i) == arr[i + 1]

Min(S) == CHOOSE x \in S : \A y \in S : x <= y

Max(S) == CHOOSE x \in S : \A y \in S : x >= y

Positions(pattern) == 0..(Len(pattern) - 1)

\* The first position with a fixed letter, 0 when there is none.
FirstFixedPosOrZero(pattern) ==
    LET F == { i \in Positions(pattern) : At(pattern, i) # "" }
    IN  IF F = {} THEN 0 ELSE Min(F)

\* first and last position with a fixed letter, -1 when there is none
FirstFixedPos(pattern) ==
    LET F == { i \in Positions(pattern) : At(pattern, i) # "" }
    IN  IF F = {} THEN -1 ELSE Min(F)

LastFixedPos(pattern) ==
    LET F == { i \in Positions(pattern) : At(pattern, i) # "" }
    IN  IF F = {} THEN -1 ELSE Max(F)

\* first and last position that is not locked empty
FirstAvailablePos(pattern, lockedEmpty) ==
    LET A == { i \in Positions(pattern) : ~At(lockedEmpty, i) }
    IN  IF A = {} THEN 0 ELSE Min(A)

LastAvailablePos(pattern, lockedEmpty) ==
    LET A == { i \in Positions(pattern) : ~At(lockedEmpty, i) }
    IN  IF A = {} THEN Len(pattern) - 1 ELSE Max(A)

PatternMinLength(pattern) ==
    LET patternSpan == LastFixedPos(pattern) - FirstFixedPos(pattern) + 1
    IN  IF patternSpan > 2 THEN patternSpan ELSE 2

PatternMaxLength(pattern, lockedEmpty) ==
    LastAvailablePos(pattern, lockedEmpty)
        - FirstAvailablePos(pattern, lockedEmpty) + 1

\* The inner loop over the word's letters: whether the word, starting at
\* startPos, meets no locked-empty slot and agrees with every fixed letter.
PlacementMatches(word, startPos, pattern, lockedEmpty) ==
    \A i \in 0..(Len(word) - 1) :
        LET wheelPos == startPos + i
        IN  /\ ~At(lockedEmpty, wheelPos)
            /\ At(pattern, wheelPos) # "" =>
                   At(word, i) = ToUpperChar(At(pattern, wheelPos))

\* lettersNeeded: the word's letters that land on slots without a letter.
RECURSIVE LettersNeededFrom(_, _, _, _)
LettersNeededFrom(word, i, startPos, pattern) ==
    IF i > Len(word) - 1 THEN <<>>
    ELSE (IF At(pattern, startPos + i) = "" THEN <<At(word, i)>> ELSE <<>>)
         \o LettersNeededFrom(word, i + 1, startPos, pattern)

\* Every letter of the word is asked of the rack, pinned slot or not.
LettersNeededOfWholeWord(word, startPos, pattern) == word

LettersNeeded(word, startPos, pattern) ==
    LettersNeededFrom(word, 0, startPos, pattern)

\* The checks of one start position, without the one that the word reaches
\* the last fixed letter.
PlacementFitsShortOfLastFixed(word, startPos, pattern, lockedEmpty) ==
    LET endPos == startPos + Len(word) - 1
    IN  /\ ~(endPos > LastAvailablePos(pattern, lockedEmpty))
        /\ PlacementMatches(word, startPos, pattern, lockedEmpty)

\* The checks of one start position that come before the rack check.
PlacementFits(word, startPos, pattern, lockedEmpty) ==
    LET endPos == startPos + Len(word) - 1
    IN  /\ ~(endPos < LastFixedPos(pattern))
        /\ ~(endPos > LastAvailablePos(pattern, lockedEmpty))
        /\ PlacementMatches(word, startPos, pattern, lockedEmpty)

\* The loop over start positions that goes on after a start position is
\* accepted, and so pushes a result for each one.
RECURSIVE PlacementsWithoutBreak(_, _, _, _, _, _)
PlacementsWithoutBreak(word, startPos, pattern, lockedEmpty, availableLetters, wildcardCount) ==
    IF startPos > FirstFixedPos(pattern) THEN <<>>
    ELSE (IF /\ PlacementFits(word, startPos, pattern, lockedEmpty)
             /\ canFormFromRack(LettersNeeded(word, startPos, pattern),
                                availableLetters, wildcardCount)
          THEN << [word |-> word, points |-> calculateWordPoints(word),
                   startPos |-> startPos] >>
          ELSE <<>>)
         \o PlacementsWithoutBreak(word, startPos + 1, pattern, lockedEmpty,
                                   availableLetters, wildcardCount)

\* The loop over start positions taken from the latest start position
\* down: it pushes the last placement that is accepted.
PlacementsLatestFirst(word, startPos, pattern, lockedEmpty, availableLetters, wildcardCount) ==
    LET all == PlacementsWithoutBreak(word, startPos, pattern, lockedEmpty,
                                      availableLetters, wildcardCount)
    IN  IF all = <<>> THEN <<>> ELSE << all[Len(all)] >>

\* The loop over start positions of findPatternMatches for one word, from
\* startPos on: what it pushes on results. It breaks at the first start
\* position it accepts.
RECURSIVE PlacementsFrom(_, _, _, _, _, _)
PlacementsFrom(word, startPos, pattern, lockedEmpty, availableLetters, wildcardCount) ==
    IF startPos > FirstFixedPos(pattern) THEN <<>>
    ELSE IF /\ PlacementFits(word, startPos, pattern, lockedEmpty)
            /\ canFormFromRack(LettersNeeded(word, startPos, pattern),
                               availableLetters, wildcardCount)
    THEN << [word |-> word, points |-> calculateWordPoints(word),
             startPos |-> startPos] >>
    ELSE PlacementsFrom(word, startPos + 1, pattern, lockedEmpty,
                        availableLetters, wildcardCount)

\* results after the loop over the words: what each word pushed, in turn.
RECURSIVE Pushed(_, _)
Pushed(perWord, i) ==
    IF i > Len(perWord) THEN <<>>
    ELSE perWord[i] \o Pushed(perWord, i + 1)

\* The comparator of the rack searches, with its length key, in the place
\* of the comparator of findPatternMatches.
ComparePatternResultsWithLength(a, b) ==
    IF b.points # a.points THEN b.points - a.points
    ELSE IF Len(b.word) # Len(a.word) THEN Len(b.word) - Len(a.word)
    ELSE LocaleCompare(a.word, b.word)

\* The comparator of findPatternMatches: points descending, then
\* alphabetically.
ComparePatternResults(a, b) ==
    IF b.points # a.points THEN b.points - a.points
    ELSE LocaleCompare(a.word, b.word)

\* results.sort(...) of findPatternMatches
SortPatternResults(s) ==
    StableSort(s, [i \in 1..Len(s) |-> [j \in 1..Len(s) |-> ComparePatternResults(s[i], s[j])]])

findPatternMatches(this, pattern, lockedEmpty, rackLetters) ==
    IF ~this.loaded THEN <<>>
    ELSE IF FirstFixedPos(pattern) = -1 THEN <<>>
    ELSE LET wildcardCount == CountWildcards(rackLetters)
             availableLetters == RegularLetters(rackLetters)
             minLength == PatternMinLength(pattern)
             maxLength == PatternMaxLength(pattern, lockedEmpty)
             ForWord(word) ==
                 IF Len(word) < minLength \/ Len(word) > maxLength THEN <<>>
                 ELSE PlacementsFrom(word,
                          FirstAvailablePos(pattern, lockedEmpty), pattern,
                          lockedEmpty, availableLetters, wildcardCount)
             results ==
                 Pushed([i \in 1..Len(this.words) |-> ForWord(this.words[i])],
                        1)
         IN  SortPatternResults(results)

\* Only the one start position is tried, and none after it.
FirstFitOnlyThere(word, startPos, pattern, lockedEmpty) ==
    IF startPos > FirstFixedPos(pattern) THEN -1
    ELSE IF PlacementFits(word, startPos, pattern, lockedEmpty)
    THEN startPos
    ELSE -1

\* The loop over start positions of getRandomPatternWord.
RECURSIVE FirstFitFrom(_, _, _, _)
FirstFitFrom(word, startPos, pattern, lockedEmpty) ==
    IF startPos > FirstFixedPos(pattern) THEN -1
    ELSE IF PlacementFits(word, startPos, pattern, lockedEmpty)
    THEN startPos
    ELSE FirstFitFrom(word, startPos + 1, pattern, lockedEmpty)

\* matchingWords of getRandomPatternWord: what it picks its answer from.
matchingWords(this, pattern, lockedEmpty) ==
    IF ~this.loaded THEN <<>>
    ELSE IF FirstFixedPos(pattern) = -1 THEN <<>>
    ELSE LET minLength == PatternMinLength(pattern)
             maxLength == PatternMaxLength(pattern, lockedEmpty)
             Fit(word) ==
                 FirstFitFrom(word, FirstAvailablePos(pattern, lockedEmpty),
                              pattern, lockedEmpty)
             Keep(word) ==
                 /\ ~(Len(word) < minLength \/ Len(word) > maxLength)
                 /\ Fit(word) # -1
             found == SelectSeq(this.words, Keep)
         IN  [i \in 1..Len(found) |->
                 [word |-> found[i], startPos |-> Fit(found[i])]]

\* A result that may be null is a sequence of no value (JavaScript's null)
\* or of the one value.
null == <<>>

\* What getRandomPatternWord may return: null, or any one of matchingWords
\* (Math.random picks the index).
getRandomPatternWord(this, pattern, lockedEmpty) ==
    LET m == matchingWords(this, pattern, lockedEmpty)
    IN  IF Len(m) = 0 THEN {null} ELSE { <<m[i]>> : i \in 1..Len(m) }

(***************************************************************************)
(* Dictionary: the category queries.                                       *)
(***************************************************************************)
\* remaining.indexOf(letter) / slice for each letter: whether word holds
\* all of letters, each occurrence used once.
RECURSIVE HasAllFrom(_, _, _)
HasAllFrom(remaining, searchLetters, i) ==
    IF i > Len(searchLetters) THEN TRUE
    ELSE LET index == IndexOf(remaining, searchLetters[i])
         IN  IF index = 0 THEN FALSE
             ELSE HasAllFrom(RemoveAt(remaining, index), searchLetters, i + 1)

ComparePoints(a, b) == b.points - a.points

\* results.sort((a, b) => b.points - a.points)
SortByPoints(s) ==
    StableSort(s, [i \in 1..Len(s) |-> [j \in 1..Len(s) |-> ComparePoints(s[i], s[j])]])

findWordsContaining(this, letters, maxResults) ==
    IF ~this.loaded THEN <<>>
    ELSE LET searchLetters == ToUpper(letters)
             hits == SelectSeq(this.words,
                          LAMBDA word : HasAllFrom(word, searchLetters, 1))
             \* the loop breaks once results.length >= maxResults, which it
             \* tests after each push
             stop == IF maxResults < 1 THEN 1 ELSE maxResults
             results == IF Len(hits) > stop THEN SubSeq(hits, 1, stop)
                        ELSE hits
         IN  SortByPoints(Entries(results))

getRandomWord(this, length) ==
    IF ~this.loaded THEN {null}
    ELSE LET wordsOfLength ==
                 SelectSeq(this.words, LAMBDA w : Len(w) = length)
         IN  IF Len(wordsOfLength) = 0 THEN {null}
             ELSE { <<wordsOfLength[i]>> : i \in 1..Len(wordsOfLength) }

CompareAlphabetical(a, b) == LocaleCompare(a.word, b.word)

\* results.sort(...) of getWordsByLength
SortAlphabetical(s) ==
    StableSort(s, [i \in 1..Len(s) |-> [j \in 1..Len(s) |-> CompareAlphabetical(s[i], s[j])]])

CompareLengthThenAlphabetical(a, b) ==
    IF Len(a.word) # Len(b.word) THEN Len(a.word) - Len(b.word)
    ELSE LocaleCompare(a.word, b.word)

\* results.sort(...) by length, then alphabetically
SortLengthThenAlphabetical(s) ==
    StableSort(s, [i \in 1..Len(s) |-> [j \in 1..Len(s) |-> CompareLengthThenAlphabetical(s[i], s[j])]])

getWordsByLength(this, length) ==
    IF ~this.loaded THEN <<>>
    ELSE SortAlphabetical(Entries(SelectSeq(this.words, LAMBDA word : Len(word) = length)))

getQWithoutU(this) ==
    IF ~this.loaded THEN <<>>
    ELSE SortLengthThenAlphabetical(Entries(SelectSeq(this.words,
             LAMBDA word : /\ Includes(word, <<"Q">>)
                           /\ ~Includes(word, <<"Q", "U">>))))

getWordsWithLetter(this, letter, maxLength) ==
    IF ~this.loaded THEN <<>>
    ELSE LET searchLetter == ToUpper(letter)
         IN  SortLengthThenAlphabetical(Entries(SelectSeq(this.words,
                 LAMBDA word : /\ ~(Len(word) > maxLength)
                               /\ Includes(word, searchLetter))))

Vowels == {"A", "E", "I", "O", "U"}

VowelCount(word) == Len(SelectSeq(word, LAMBDA c : c \in Vowels))

\* Math.round(vowelRatio * 100), the ratio being vowelCount / word.length
VowelPercent(word) ==
    (200 * VowelCount(word) + Len(word)) \div (2 * Len(word))

CompareVowelRatio(a, b) ==
    IF b.vowelRatio # a.vowelRatio THEN b.vowelRatio - a.vowelRatio
    ELSE Len(a.word) - Len(b.word)

\* results.sort(...) of getVowelHeavyWords
SortVowelRatio(s) ==
    StableSort(s, [i \in 1..Len(s) |-> [j \in 1..Len(s) |-> CompareVowelRatio(s[i], s[j])]])

\* The ceiling on the results of getVowelHeavyWords.
VowelHeavyLimit == 200

\* minVowelRatio is the fraction ratioNum / ratioDen (0.6 is 3 / 5).
getVowelHeavyWords(this, ratioNum, ratioDen, minLength) ==
    IF ~this.loaded THEN <<>>
    ELSE LET Keep(word) ==
                 /\ ~(Len(word) < minLength)
                 /\ VowelCount(word) * ratioDen >= ratioNum * Len(word)
             found == SelectSeq(this.words, Keep)
             results ==
                 [i \in 1..Len(found) |->
                     [word |-> found[i],
                      points |-> calculateWordPoints(found[i]),
                      vowelRatio |-> VowelPercent(found[i])]]
             sorted == SortVowelRatio(results)
         IN  IF Len(sorted) > VowelHeavyLimit
             THEN SubSeq(sorted, 1, VowelHeavyLimit)
             ELSE sorted

(***************************************************************************)
(* SearchManager (search.js). `this` is its dictionary.                    *)
(***************************************************************************)
\* Array.prototype.sort() of single characters: by code unit.
CompareChars(a, b) == IndexOf(ALPHABET, a) - IndexOf(ALPHABET, b)

\* Array.prototype.sort() of characters
SortChars(s) ==
    StableSort(s, [i \in 1..Len(s) |-> [j \in 1..Len(s) |-> CompareChars(s[i], s[j])]])

\* the letters as they stand, unsorted
LettersAsTheyStand(word) == word

\* word.split('').sort().join('')
SortedLetters(word) == SortChars(word)

\* {word, points: validate(word).points}
ValidatedEntry(this, word) ==
    [word |-> word, points |-> validate(this, word).points]

findAnagrams(this, word) ==
    IF ~this.loaded THEN <<>>
    ELSE LET sortedLetters == SortedLetters(ToUpper(word))
             Keep(dictWord) ==
                 /\ ~(Len(dictWord) # Len(word))
                 /\ SortedLetters(dictWord) = sortedLetters
                 /\ dictWord # ToUpper(word)
             found == SelectSeq(this.words, Keep)
             results ==
                 [i \in 1..Len(found) |-> ValidatedEntry(this, found[i])]
         IN  SortByPoints(results)

\* the word with nothing taken out
ReplaceNothing(word, base) == word

\* word.replace(base, ''): word without the first occurrence of base.
ReplaceFirst(word, base) ==
    IF ~Includes(word, base) THEN word
    ELSE LET k == Min({ j \in 0..(Len(word) - Len(base)) :
                          SubSeq(word, j + 1, j + Len(base)) = base })
         IN  SubSeq(word, 1, k) \o SubSeq(word, k + Len(base) + 1, Len(word))

findExtensions(this, baseWord, availableLetters) ==
    IF ~this.loaded THEN <<>>
    ELSE LET base == ToUpper(baseWord)
             available == ToUpper(availableLetters)
             Keep(word) ==
                 /\ ~(Len(word) <= Len(base))
                 /\ Includes(word, base)
                 /\ HasAllFrom(available, ReplaceFirst(word, base), 1)
             found == SelectSeq(this.words, Keep)
             results ==
                 [i \in 1..Len(found) |-> ValidatedEntry(this, found[i])]
         IN  SortByPoints(results)

containsLetters(this, letters, maxResults, minLength, maxLength) ==
    SelectSeq(findWordsContaining(this, letters, maxResults),
              LAMBDA w : Len(w.word) >= minLength /\ Len(w.word) <= maxLength)

(***************************************************************************)
(* LetterRack (letterRack.js): a rack of NUM_TILES tiles, each a letter in *)
(* upper case, ? or the empty string; `this` is its dictionary.            *)
(***************************************************************************)
NUM_TILES == 7

\* this.letters.filter(l => l !== '').join('')
getLetters(tiles) == SelectSeq(tiles, LAMBDA l : l # "")

\* filters.startsWith || filters.endsWith || filters.contains, as a condition
hasFilters(filters) ==
    \/ filters.startsWith # <<>>
    \/ filters.endsWith # <<>>
    \/ filters.contains # <<>>

\* LetterRack.findWords(filters): what it returns, and hands to onWordsFound
LetterRackFindWords(this, tiles, filters) ==
    LET letters == getLetters(tiles)
    IN  IF Len(letters) < 2 /\ ~hasFilters(filters) THEN <<>>
        ELSE findWordsWithFilters(this, letters, 2, filters)

(***************************************************************************)
(* The dictionary files a fetch may deliver, as the lines text.split gives.*)
(***************************************************************************)
\* The vocabulary of the specification's first scenario.
ScenarioFile ==
    << <<"C", "A", "T">>, <<"C", "A", "T", "S">>, <<"A", "C", "T">>,
       <<"T", "A", "C", "T">>, <<"C", "A", "T", "T", "Y">> >>

\* Short words, with lines in lower case, padded, empty and repeated.
MixedFile ==
    << <<"t", "a">>, <<" ", "A", "T", " ">>, <<>>, <<"T", "A", "T">>,
       <<"C", "A">>, <<"T", "A", "T", "A">>, <<"a">>, <<"A", "A">>,
       <<"a", "t">>, <<"A", "C", "T">>, <<"C", "A", "T">>, <<"Q", "I">>,
       <<"A", "Q", "U", "A">>, <<" ">> >>

\* Every word of three letters that starts with A and goes on with two of
\* the first CapWidth letters of the alphabet: more words than a filter-only
\* search returns.
LargeFile ==
    [k \in 1..(CapWidth * CapWidth) |->
        << "A", ALPHABET[((k - 1) \div CapWidth) + 1],
           ALPHABET[((k - 1) % CapWidth) + 1] >>]

\* The vocabulary of the specification's pattern scenario.
CatFile == << <<"C", "A", "T">> >>

Files == {ScenarioFile, MixedFile, CatFile}

(***************************************************************************)
(* Dictionary.load and processWordsInChunks.                               *)
(***************************************************************************)
\* Lines handled between two yields: a bound of the model, where the source
\* has 10000, so that a load of the files above yields between chunks.
chunkSize == 4

RECURSIVE AddLines(_, _)
\* for (const line of chunk) { word = line.trim().toUpperCase(); ... }
AddLines(ws, chunk) ==
    IF chunk = <<>> THEN ws
    ELSE LET word == ToUpper(Trim(Head(chunk)))
         IN  AddLines(IF Len(word) > 0 THEN SetAdd(ws, word) ELSE ws,
                      Tail(chunk))

\* lines.slice(i, i + chunkSize), i counting from 0
Chunk(lines, i) ==
    SubSeq(lines, i + 1,
           IF i + chunkSize < Len(lines) THEN i + chunkSize ELSE Len(lines))

Idle == [at |-> "idle", lines |-> <<>>, i |-> 0]

\* One turn of processWordsInChunks for caller c, at line i of lines: the
\* chunk is added; then the call yields, or load() completes.
ProcessChunk(c, lines, i) ==
    /\ words' = AddLines(words, Chunk(lines, i))
    /\ IF i + chunkSize < Len(lines)
       THEN /\ pc' = [pc EXCEPT ![c] =
                         [at |-> "yield", lines |-> lines,
                          i |-> i + chunkSize]]
            /\ UNCHANGED <<loaded, loading>>
       ELSE /\ loaded' = TRUE
            /\ loading' = FALSE
            /\ pc' = [pc EXCEPT ![c] = [Idle EXCEPT !.at = "resolved"]]

\* load() without its test of loaded and loading: every call starts a fetch.
LoadCallWithoutTest(c) ==
    /\ pc[c].at \in {"idle", "resolved", "rejected"}
    /\ loading' = TRUE
    /\ pc' = [pc EXCEPT ![c] = [Idle EXCEPT !.at = "fetch"]]
    /\ UNCHANGED <<words, loaded, call, ret>>

\* load() is called: it returns at once when loaded or loading, and
\* otherwise sets loading and starts the fetch.
LoadCall(c) ==
    /\ pc[c].at \in {"idle", "resolved", "rejected"}
    /\ IF loaded \/ loading
       THEN /\ pc' = [pc EXCEPT ![c] = [Idle EXCEPT !.at = "resolved"]]
            /\ UNCHANGED loading
       ELSE /\ loading' = TRUE
            /\ pc' = [pc EXCEPT ![c] = [Idle EXCEPT !.at = "fetch"]]
    /\ UNCHANGED <<words, loaded, call, ret>>

\* A failure without the finally block: loading stays set.
FetchFailsWithoutFinally(c) ==
    /\ pc[c].at = "fetch"
    /\ pc' = [pc EXCEPT ![c] = [Idle EXCEPT !.at = "rejected"]]
    /\ UNCHANGED <<words, loaded, loading, call, ret>>

\* The fetch fails, or answers with a status that is not OK: load()
\* rethrows, and its finally block resets loading.
FetchFails(c) ==
    /\ pc[c].at = "fetch"
    /\ loading' = FALSE
    /\ pc' = [pc EXCEPT ![c] = [Idle EXCEPT !.at = "rejected"]]
    /\ UNCHANGED <<words, loaded, call, ret>>

\* The fetch delivers a file: its first chunk is processed.
FetchSucceeds(c, files) ==
    /\ pc[c].at = "fetch"
    /\ \E lines \in files : ProcessChunk(c, lines, 0)
    /\ UNCHANGED <<call, ret>>

\* The timeout of a yield fires: the next chunk is processed.
ChunkResumes(c) ==
    /\ pc[c].at = "yield"
    /\ ProcessChunk(c, pc[c].lines, pc[c].i)
    /\ UNCHANGED <<call, ret>>

\* The application builds its controls, which issue the queries, once its
\* own load() call has resolved.
AppReady == pc["app"].at = "resolved"

\* The state after construction, with the callers of load().
InitWith(callers) ==
    /\ words = <<>>
    /\ loaded = FALSE
    /\ loading = FALSE
    /\ pc = [c \in callers |-> Idle]
    /\ call = [op |-> "none"]
    /\ ret = <<>>

Init == InitWith({"app"})

(***************************************************************************)
(* The queries, as actions: each records the call and what it returned.    *)
(* Their arguments are drawn from the sets handed to them.                 *)
(***************************************************************************)
Returns(c, r) ==
    /\ call' = c
    /\ ret' = r
    /\ UNCHANGED <<words, loaded, loading, pc>>

\* The caller has taken the result of its query.
Done ==
    /\ call.op # "none"
    /\ call' = [op |-> "none"]
    /\ ret' = <<>>
    /\ UNCHANGED <<words, loaded, loading, pc>>

CallIsValid(ws) ==
    \E word \in ws :
        Returns([op |-> "validate", word |-> word],
                validate(Dictionary, word))

CallIsValidOnly(ws) ==
    \E word \in ws :
        Returns([op |-> "isValid", word |-> word], isValid(Dictionary, word))

CallFindWords(racks, minLengths) ==
    \E letters \in racks, minLength \in minLengths :
        Returns([op |-> "findWords", letters |-> letters,
                 minLength |-> minLength],
                findWords(Dictionary, letters, minLength))

CallFindWordsWithFilters(racks, minLengths, filterSets) ==
    \E letters \in racks, minLength \in minLengths, filters \in filterSets :
        Returns([op |-> "findWordsWithFilters", letters |-> letters,
                 minLength |-> minLength, filters |-> filters],
                findWordsWithFilters(Dictionary, letters, minLength, filters))

CallFindPatternMatches(patterns, racks) ==
    \E p \in patterns, rackLetters \in racks :
        Returns([op |-> "findPatternMatches", pattern |-> p.pattern,
                 lockedEmpty |-> p.lockedEmpty, rackLetters |-> rackLetters],
                findPatternMatches(Dictionary, p.pattern, p.lockedEmpty,
                                   rackLetters))

CallGetRandomPatternWord(patterns) ==
    \E p \in patterns :
        \E r \in getRandomPatternWord(Dictionary, p.pattern, p.lockedEmpty) :
            Returns([op |-> "getRandomPatternWord", pattern |-> p.pattern,
                     lockedEmpty |-> p.lockedEmpty], r)

CallFindAnagrams(ws) ==
    \E word \in ws :
        Returns([op |-> "findAnagrams", word |-> word],
                findAnagrams(Dictionary, word))

CallFindExtensions(bases, pools) ==
    \E baseWord \in bases, availableLetters \in pools :
        Returns([op |-> "findExtensions", baseWord |-> baseWord,
                 availableLetters |-> availableLetters],
                findExtensions(Dictionary, baseWord, availableLetters))

CallFindWordsContaining(pools, limits) ==
    \E letters \in pools, maxResults \in limits :
        Returns([op |-> "findWordsContaining", letters |-> letters,
                 maxResults |-> maxResults],
                findWordsContaining(Dictionary, letters, maxResults))

CallGetWordsByLength(lengths) ==
    \E length \in lengths :
        Returns([op |-> "getWordsByLength", length |-> length],
                getWordsByLength(Dictionary, length))

CallGetQWithoutU ==
    Returns([op |-> "getQWithoutU"], getQWithoutU(Dictionary))

CallGetWordsWithLetter(letters, lengths) ==
    \E letter \in letters, maxLength \in lengths :
        Returns([op |-> "getWordsWithLetter", letter |-> letter,
                 maxLength |-> maxLength],
                getWordsWithLetter(Dictionary, letter, maxLength))

CallGetVowelHeavyWords(ratios, lengths) ==
    \E ratio \in ratios, minLength \in lengths :
        Returns([op |-> "getVowelHeavyWords", ratio |-> ratio,
                 minLength |-> minLength],
                getVowelHeavyWords(Dictionary, ratio[1], ratio[2], minLength))

CallLetterRackFindWords(racks, filterSets) ==
    \E tiles \in racks, filters \in filterSets :
        Returns([op |-> "LetterRack.findWords", tiles |-> tiles,
                 filters |-> filters],
                LetterRackFindWords(Dictionary, tiles, filters))

CallGetRandomWord(lengths) ==
    \E length \in lengths :
        \E r \in getRandomWord(Dictionary, length) :
            Returns([op |-> "getRandomWord", length |-> length], r)

(***************************************************************************)
(* The arguments the model enumerates.                                     *)
(***************************************************************************)
RackSymbols == {"A", "C", "T", "?"}

\* a rack in lower case, and the rack of the pattern scenario
ExtraRacks == { <<"c", "a", "t">>, <<"C", "T", "B", "T">> }

Racks ==
    SeqsUpTo({"A", "C", "T"}, MaxRack)
        \cup SeqsUpTo(RackSymbols, MaxFilterRack) \cup ExtraRacks

MinLengths == (-1)..MaxMinLength

FilterRacks ==
    SeqsUpTo({"A", "T", "?"}, MaxFilterRack)
        \cup { <<"C">>, <<"C", "A", "T">>, <<"c", "?", "a">> }

FilterMinLengths == 1..MaxMinLength

FilterSets ==
    [startsWith : { <<>>, <<"C">>, <<"t", "a">>, <<"Q", "I">> },
     endsWith : { <<>>, <<"T">>, <<"a", "t">> },
     contains : { <<>>, <<"A">>, <<"A", "T">> }]

NoFilters == [startsWith |-> <<>>, endsWith |-> <<>>, contains |-> <<>>]

PatternLetters == {"", "A", "T"}

\* the pattern of the pattern scenario, and wider patterns with anchors and
\* with a slot locked empty
ExtraPatterns ==
    { [pattern |-> <<"", "", "A", "", "">>,
       lockedEmpty |-> <<FALSE, FALSE, FALSE, FALSE, FALSE>>],
      [pattern |-> <<"", "A", "", "">>,
       lockedEmpty |-> <<FALSE, FALSE, FALSE, FALSE>>],
      [pattern |-> <<"", "A", "", "">>,
       lockedEmpty |-> <<FALSE, FALSE, FALSE, TRUE>>],
      [pattern |-> <<"", "A", "T", "">>,
       lockedEmpty |-> <<FALSE, FALSE, FALSE, TRUE>>] }

Patterns ==
    [pattern : [1..PatternLen -> PatternLetters],
     lockedEmpty : [1..PatternLen -> BOOLEAN]] \cup ExtraPatterns

PatternRacks ==
    SeqsUpTo({"T", "?"}, MaxPatternRack)
        \cup { <<"C">>, <<"C", "T">>, <<"C", "T", "B", "T">>,
               <<"?", "?", "?">>, <<"c", "t">> }

QueryWords ==
    SeqsUpTo({"A", "C", "T"}, MaxRack) \cup { <<"c", "a", "t">>, <<"Q", "I">> }

ExtensionBases == { <<>>, <<"A">>, <<"A", "T">>, <<"t", "a">>, <<"C", "A">> }

ExtensionPools == SeqsUpTo({"A", "C", "T"}, MaxFilterRack)

ResultLimits == 0..MaxMinLength

WordLengths == 0..(MaxMinLength + 1)

\* 0.6, the default of getVowelHeavyWords, and 0.5
VowelRatios == { <<3, 5>>, <<1, 2>> }

SearchLetters == { <<"A">>, <<"q">>, <<"T", "A">>, <<"J">> }

(***************************************************************************)
(* The application: it loads the dictionary, then serves queries.          *)
(***************************************************************************)
\* The application is ready and no query is under way.
Ready == AppReady /\ call.op = "none"

AppValidate == Ready /\ CallIsValid(QueryWords)

AppFindWords == Ready /\ CallFindWords(Racks, MinLengths)

AppFindWordsWithFilters ==
    Ready /\ CallFindWordsWithFilters(FilterRacks, FilterMinLengths,
                                      FilterSets)

AppFindPatternMatches == Ready /\ CallFindPatternMatches(Patterns, PatternRacks)

AppGetRandomPatternWord == Ready /\ CallGetRandomPatternWord(Patterns)

AppFindAnagrams == Ready /\ CallFindAnagrams(QueryWords)

AppFindExtensions ==
    Ready /\ CallFindExtensions(ExtensionBases, ExtensionPools)

AppFindWordsContaining ==
    Ready /\ CallFindWordsContaining(ExtensionPools, ResultLimits)

AppGetWordsByLength == Ready /\ CallGetWordsByLength(WordLengths)

AppGetQWithoutU == Ready /\ CallGetQWithoutU

AppGetWordsWithLetter ==
    Ready /\ CallGetWordsWithLetter(SearchLetters, WordLengths)

AppGetVowelHeavyWords ==
    Ready /\ CallGetVowelHeavyWords(VowelRatios, WordLengths)

AppGetRandomWord == Ready /\ CallGetRandomWord(WordLengths)

\* racks of NUM_TILES tiles: empty, one tile, one wild tile, CAT with gaps
TileRacks ==
    { [i \in 1..NUM_TILES |-> ""],
      [i \in 1..NUM_TILES |-> IF i = 3 THEN "A" ELSE ""],
      [i \in 1..NUM_TILES |-> IF i = 1 THEN "?" ELSE ""],
      [i \in 1..NUM_TILES |->
          IF i = 2 THEN "C" ELSE IF i = 4 THEN "A"
          ELSE IF i = NUM_TILES THEN "T" ELSE ""] }

AppLetterRackFindWords ==
    Ready /\ CallLetterRackFindWords(TileRacks,
                 { NoFilters,
                   [startsWith |-> <<>>, endsWith |-> <<>>,
                    contains |-> <<"A">>] })

Next ==
    \/ \E c \in DOMAIN pc : LoadCall(c)
    \/ \E c \in DOMAIN pc : FetchFails(c)
    \/ \E c \in DOMAIN pc : FetchSucceeds(c, Files)
    \/ \E c \in DOMAIN pc : ChunkResumes(c)
    \/ AppValidate
    \/ AppFindWords
    \/ AppFindWordsWithFilters
    \/ AppFindPatternMatches
    \/ AppGetRandomPatternWord
    \/ AppFindAnagrams
    \/ AppFindExtensions
    \/ AppFindWordsContaining
    \/ AppGetWordsByLength
    \/ AppGetQWithoutU
    \/ AppGetWordsWithLetter
    \/ AppGetVowelHeavyWords
    \/ AppGetRandomWord
    \/ AppLetterRackFindWords
    \/ Done

Spec == Init /\ [][Next]_vars

(***************************************************************************)
(* The canForm functions on their own: they read nothing of the store.     *)
(***************************************************************************)
CallCanFormWordWithBoard(targets, pools, wildcardCounts, boards) ==
    \E word \in targets, rackLetters \in pools,
       wildcards \in wildcardCounts, boardLetters \in boards :
        Returns([op |-> "canFormWordWithBoard", word |-> word,
                 rackLetters |-> rackLetters, wildcards |-> wildcards,
                 boardLetters |-> boardLetters],
                canFormWordWithBoard(word, rackLetters, wildcards,
                                     boardLetters))

CanFormLetters == {"A", "T"}

\* with the words of the wildcard scenario: CAT from the rack CA
Targets == SeqsUpTo(CanFormLetters, MaxTarget) \cup { <<"C", "A", "T">> }

Pools == SeqsUpTo(CanFormLetters, MaxPool) \cup { <<"C", "A">> }

Boards == SeqsUpTo(CanFormLetters, MaxBoard)

WildcardCounts == 0..MaxWild

CanFormWordWithBoardStep ==
    /\ call.op = "none"
    /\ CallCanFormWordWithBoard(Targets, Pools, WildcardCounts, Boards)

NextCanForm ==
    \/ CanFormWordWithBoardStep
    \/ Done

SpecCanForm == Init /\ [][NextCanForm]_vars

(***************************************************************************)
(* The filtered search over vocabularies of which one is larger than the   *)
(* ceiling of a filter-only search.                                        *)
(***************************************************************************)
CapFiles == {MixedFile, LargeFile}

\* no rack, wildcards only, letters, and both in lower case
CapRacks ==
    { <<>>, <<"?">>, <<"?", "?">>, <<"B">>, <<"A", "T">>, <<"b", "?">>,
      <<"C", "A", "T">> }

CapFilterSets ==
    [startsWith : { <<>>, <<"A">>, <<"a", "b">>, <<"Q", "I">> },
     endsWith : { <<>>, <<"A">>, <<"t">> },
     contains : { <<>>, <<"B">>, <<"a", "t">> }]

CapFindWordsWithFilters ==
    Ready /\ CallFindWordsWithFilters(CapRacks, FilterMinLengths,
                                      CapFilterSets)

NextCap ==
    \/ \E c \in DOMAIN pc : LoadCall(c)
    \/ \E c \in DOMAIN pc : FetchFails(c)
    \/ \E c \in DOMAIN pc : FetchSucceeds(c, CapFiles)
    \/ \E c \in DOMAIN pc : ChunkResumes(c)
    \/ CapFindWordsWithFilters
    \/ Done

SpecCap == Init /\ [][NextCap]_vars

(***************************************************************************)
(* The queries at any time: before load() is called, while it is under     *)
(* way, after it failed and after it completed. A query runs to its end    *)
(* and its caller takes the result before the next step of a load.         *)
(***************************************************************************)
Quiet == call.op = "none"

EarlyWords == { <<"C", "A", "T">>, <<"t", "a">>, <<"A", "C">> }

EarlyRacks == { <<>>, <<"C", "A", "T">>, <<"T", "A">>, <<"?">> }

EarlyFilterSets ==
    { NoFilters,
      [startsWith |-> <<"C">>, endsWith |-> <<>>, contains |-> <<>>],
      [startsWith |-> <<>>, endsWith |-> <<>>, contains |-> <<"A">>] }

EarlyLoadCall == \E c \in DOMAIN pc : Quiet /\ LoadCall(c)

EarlyFetchFails == \E c \in DOMAIN pc : Quiet /\ FetchFails(c)

EarlyFetchSucceeds == \E c \in DOMAIN pc : Quiet /\ FetchSucceeds(c, Files)

EarlyChunkResumes == \E c \in DOMAIN pc : Quiet /\ ChunkResumes(c)

EarlyIsValid == Quiet /\ CallIsValidOnly(EarlyWords)

EarlyValidate == Quiet /\ CallIsValid(EarlyWords)

EarlyFindWords == Quiet /\ CallFindWords(EarlyRacks, {2})

EarlyFindWordsWithFilters ==
    Quiet /\ CallFindWordsWithFilters(EarlyRacks, {2}, EarlyFilterSets)

EarlyFindPatternMatches ==
    Quiet /\ CallFindPatternMatches(ExtraPatterns, EarlyRacks)

EarlyGetRandomPatternWord == Quiet /\ CallGetRandomPatternWord(ExtraPatterns)

EarlyFindAnagrams == Quiet /\ CallFindAnagrams(EarlyWords)

EarlyFindExtensions ==
    Quiet /\ CallFindExtensions(ExtensionBases, { <<"T">>, <<"C", "T">> })

EarlyFindWordsContaining ==
    Quiet /\ CallFindWordsContaining({ <<"A">>, <<"T", "A">> }, {1, 100})

EarlyGetWordsByLength == Quiet /\ CallGetWordsByLength({2, 3})

EarlyGetQWithoutU == Quiet /\ CallGetQWithoutU

EarlyGetWordsWithLetter ==
    Quiet /\ CallGetWordsWithLetter(SearchLetters, {3, 8})

EarlyGetVowelHeavyWords == Quiet /\ CallGetVowelHeavyWords(VowelRatios, {2, 4})

EarlyGetRandomWord == Quiet /\ CallGetRandomWord({2, 3, 5})

NextAnyTime ==
    \/ EarlyLoadCall
    \/ EarlyFetchFails
    \/ EarlyFetchSucceeds
    \/ EarlyChunkResumes
    \/ EarlyIsValid
    \/ EarlyValidate
    \/ EarlyFindWords
    \/ EarlyFindWordsWithFilters
    \/ EarlyFindPatternMatches
    \/ EarlyGetRandomPatternWord
    \/ EarlyFindAnagrams
    \/ EarlyFindExtensions
    \/ EarlyFindWordsContaining
    \/ EarlyGetWordsByLength
    \/ EarlyGetQWithoutU
    \/ EarlyGetWordsWithLetter
    \/ EarlyGetVowelHeavyWords
    \/ EarlyGetRandomWord
    \/ Done

SpecAnyTime == Init /\ [][NextAnyTime]_vars

(***************************************************************************)
(* The searches, each in two steps: the caller calls with its arguments,   *)
(* then the function runs to its return. call holds the caller's argument  *)
(* objects, as they are at each of the two moments. No step of a load runs *)
(* in between: the functions are synchronous.                              *)
(***************************************************************************)
FrameRacks ==
    { <<>>, <<"?">>, <<"A", "T">>, <<"c", "?", "a">>,
      <<"C", "T", "B", "T">> }

FrameFilterSets ==
    { NoFilters,
      [startsWith |-> <<>>, endsWith |-> <<>>, contains |-> <<"A">>] }

FrameWords == { <<"C", "A", "T">>, <<"A", "A">>, <<"a", "t", "c">> }

FramePools == { <<>>, <<"A">>, <<"C", "A">> }

\* The caller calls: nothing has run yet.
Calls(c) ==
    /\ call' = c
    /\ ret' = <<>>
    /\ UNCHANGED <<words, loaded, loading, pc>>

\* the function op has been called and has not returned
Running(op) == call.op = op /\ call.at = "called"

\* The function returns r and has cleared the store.
ReturnsFromEmptiedStore(r) ==
    /\ call' = [call EXCEPT !.at = "returned"]
    /\ ret' = r
    /\ words' = <<>>
    /\ UNCHANGED <<loaded, loading, pc>>

\* The function returns r: the searches assign to no field of the store and
\* to no element or field of an argument.
ReturnsFrom(r) ==
    /\ call' = [call EXCEPT !.at = "returned"]
    /\ ret' = r
    /\ UNCHANGED <<words, loaded, loading, pc>>

\* The caller has taken the result.
FrameDone ==
    /\ call.op # "none"
    /\ call.at = "returned"
    /\ call' = [op |-> "none"]
    /\ ret' = <<>>
    /\ UNCHANGED <<words, loaded, loading, pc>>

FrameCallsFindWords ==
    /\ Quiet
    /\ \E letters \in FrameRacks :
          Calls([op |-> "findWords", at |-> "called", letters |-> letters,
                 minLength |-> 2])

FrameFindWordsReturns ==
    /\ Running("findWords")
    /\ ReturnsFrom(findWords(Dictionary, call.letters, call.minLength))

FrameCallsFindWordsWithFilters ==
    /\ Quiet
    /\ \E letters \in FrameRacks, filters \in FrameFilterSets :
          Calls([op |-> "findWordsWithFilters", at |-> "called",
                 letters |-> letters, minLength |-> 2, filters |-> filters])

FrameFindWordsWithFiltersReturns ==
    /\ Running("findWordsWithFilters")
    /\ ReturnsFrom(findWordsWithFilters(Dictionary, call.letters,
                                        call.minLength, call.filters))

FrameCallsCanFormWord ==
    /\ Quiet
    /\ \E word \in FrameWords, letters \in FramePools, wildcards \in 0..1 :
          Calls([op |-> "canFormWord", at |-> "called", word |-> word,
                 letters |-> letters, wildcards |-> wildcards])

FrameCanFormWordReturns ==
    /\ Running("canFormWord")
    /\ ReturnsFrom(canFormWord(call.word, call.letters, call.wildcards))

FrameCallsCanFormWordWithBoard ==
    /\ Quiet
    /\ \E word \in FrameWords, rackLetters \in FramePools,
         wildcards \in 0..1, boardLetters \in FramePools :
          Calls([op |-> "canFormWordWithBoard", at |-> "called",
                 word |-> word, rackLetters |-> rackLetters,
                 wildcards |-> wildcards, boardLetters |-> boardLetters])

FrameCanFormWordWithBoardReturns ==
    /\ Running("canFormWordWithBoard")
    /\ ReturnsFrom(canFormWordWithBoard(call.word, call.rackLetters,
                                        call.wildcards, call.boardLetters))

FrameCallsCanFormFromRack ==
    /\ Quiet
    /\ \E needed \in FrameWords, available \in FramePools, wildcards \in 0..1 :
          Calls([op |-> "canFormFromRack", at |-> "called",
                 needed |-> needed, available |-> available,
                 wildcards |-> wildcards])

FrameCanFormFromRackReturns ==
    /\ Running("canFormFromRack")
    /\ ReturnsFrom(canFormFromRack(call.needed, call.available,
                                   call.wildcards))

FrameCallsFindPatternMatches ==
    /\ Quiet
    /\ \E p \in ExtraPatterns, rackLetters \in FrameRacks :
          Calls([op |-> "findPatternMatches", at |-> "called",
                 pattern |-> p.pattern, lockedEmpty |-> p.lockedEmpty,
                 rackLetters |-> rackLetters])

FrameFindPatternMatchesReturns ==
    /\ Running("findPatternMatches")
    /\ ReturnsFrom(findPatternMatches(Dictionary, call.pattern,
                                      call.lockedEmpty, call.rackLetters))

FrameCallsGetRandomPatternWord ==
    /\ Quiet
    /\ \E p \in ExtraPatterns :
          Calls([op |-> "getRandomPatternWord", at |-> "called",
                 pattern |-> p.pattern, lockedEmpty |-> p.lockedEmpty])

FrameGetRandomPatternWordReturns ==
    /\ Running("getRandomPatternWord")
    /\ \E r \in getRandomPatternWord(Dictionary, call.pattern,
                                     call.lockedEmpty) :
           ReturnsFrom(r)

FrameCallsFindAnagrams ==
    /\ Quiet
    /\ \E word \in FrameWords :
          Calls([op |-> "findAnagrams", at |-> "called", word |-> word])

FrameFindAnagramsReturns ==
    /\ Running("findAnagrams")
    /\ ReturnsFrom(findAnagrams(Dictionary, call.word))

FrameCallsFindExtensions ==
    /\ Quiet
    /\ \E baseWord \in FramePools, availableLetters \in FrameRacks :
          Calls([op |-> "findExtensions", at |-> "called",
                 baseWord |-> baseWord,
                 availableLetters |-> availableLetters])

FrameFindExtensionsReturns ==
    /\ Running("findExtensions")
    /\ ReturnsFrom(findExtensions(Dictionary, call.baseWord,
                                  call.availableLetters))

NextFrame ==
    \/ EarlyLoadCall
    \/ EarlyFetchFails
    \/ EarlyFetchSucceeds
    \/ EarlyChunkResumes
    \/ FrameCallsFindWords
    \/ FrameFindWordsReturns
    \/ FrameCallsFindWordsWithFilters
    \/ FrameFindWordsWithFiltersReturns
    \/ FrameCallsCanFormWord
    \/ FrameCanFormWordReturns
    \/ FrameCallsCanFormWordWithBoard
    \/ FrameCanFormWordWithBoardReturns
    \/ FrameCallsCanFormFromRack
    \/ FrameCanFormFromRackReturns
    \/ FrameCallsFindPatternMatches
    \/ FrameFindPatternMatchesReturns
    \/ FrameCallsGetRandomPatternWord
    \/ FrameGetRandomPatternWordReturns
    \/ FrameCallsFindAnagrams
    \/ FrameFindAnagramsReturns
    \/ FrameCallsFindExtensions
    \/ FrameFindExtensionsReturns
    \/ FrameDone

SpecFrame == Init /\ [][NextFrame]_vars

(***************************************************************************)
(* The canForm functions at the edges of their contract: an empty target,  *)
(* a number of wildcards below 0. ret holds what the function returns and  *)
(* the values its wildcard counter took.                                   *)
(***************************************************************************)
EdgeTargets == { <<>>, <<"A">>, <<"A", "T">>, <<"C", "A", "T">> }

EdgePools == { <<>>, <<"A">>, <<"T", "A">>, <<"C", "A">>, <<"A", "A", "T">> }

EdgeBoards == { <<>>, <<"T">>, <<"C", "A", "T">> }

EdgeWildcardCounts == (-MaxWild)..MaxWild

\* wildcardsUsed of canFormFromRack: its loop is that of canFormWord
canFormFromRackCounter(needed, i, availableArr, wildcardsUsed, wildcards) ==
    canFormWordCounter(needed, i, availableArr, wildcardsUsed, wildcards)

EdgeCanFormWord ==
    /\ Quiet
    /\ \E word \in EdgeTargets, letters \in EdgePools,
          wildcards \in EdgeWildcardCounts :
           Returns([op |-> "canFormWord", word |-> word,
                    letters |-> letters, wildcards |-> wildcards],
                   [value |-> canFormWord(word, letters, wildcards),
                    counter |-> canFormWordCounter(word, 1, letters, 0,
                                                   wildcards)])

EdgeCanFormWordWithBoard ==
    /\ Quiet
    /\ \E word \in EdgeTargets, rackLetters \in EdgePools,
          wildcards \in EdgeWildcardCounts, boardLetters \in EdgeBoards :
           Returns([op |-> "canFormWordWithBoard", word |-> word,
                    rackLetters |-> rackLetters, wildcards |-> wildcards,
                    boardLetters |-> boardLetters],
                   [value |-> canFormWordWithBoard(word, rackLetters,
                                  wildcards, boardLetters),
                    counter |-> canFormWordWithBoardCounter(word, 1,
                                    rackLetters, boardLetters, 0,
                                    wildcards)])

EdgeCanFormFromRack ==
    /\ Quiet
    /\ \E needed \in EdgeTargets, available \in EdgePools,
          wildcards \in EdgeWildcardCounts :
           Returns([op |-> "canFormFromRack", needed |-> needed,
                    available |-> available, wildcards |-> wildcards],
                   [value |-> canFormFromRack(needed, available, wildcards),
                    counter |-> canFormFromRackCounter(needed, 1, available,
                                                       0, wildcards)])

NextEdge ==
    \/ EdgeCanFormWord
    \/ EdgeCanFormWordWithBoard
    \/ EdgeCanFormFromRack
    \/ Done

SpecEdge == Init /\ [][NextEdge]_vars

(***************************************************************************)
(* Two callers of load(), each of which may call again once its call has   *)
(* settled, and queries in between.                                        *)
(***************************************************************************)
InitLoad == InitWith({"app", "other"})

NextLoad ==
    \/ EarlyLoadCall
    \/ EarlyFetchFails
    \/ EarlyFetchSucceeds
    \/ EarlyChunkResumes
    \/ EarlyIsValid
    \/ EarlyFindWords
    \/ Done

SpecLoad == InitLoad /\ [][NextLoad]_vars

(***************************************************************************)
(* Properties.                                                             *)
(***************************************************************************)
\* how often letter c occurs in s
Count(s, c) == Cardinality({ i \in 1..Len(s) : s[i] = c })

RECURSIVE SumOver(_, _)
SumOver(S, f) ==
    IF S = {} THEN 0
    ELSE LET x == CHOOSE y \in S : TRUE
         IN  f[x] + SumOver(S \ {x}, f)

\* The number of letters of target that neither pool covers, counted per
\* letter with multiplicity.
Shortfall(target, rack, free) ==
    SumOver(Range(target),
            [c \in Range(target) |->
                LET d == Count(target, c) - Count(free, c) - Count(rack, c)
                IN  IF d > 0 THEN d ELSE 0])

\* the orders the characters of s can be put in
Reorderings(s) ==
    { [i \in 1..Len(s) |-> s[f[i]]] :
        f \in { g \in [1..Len(s) -> 1..Len(s)] :
                  \A i, j \in 1..Len(s) : i # j => g[i] # g[j] } }

\* C1: canFormWordWithBoard returns true exactly when the letters of the
\* target that the free pool and the rack do not cover, counted per letter
\* with multiplicity, number at most wildcardCount; and it returns the same
\* for every order of the target's characters.
C1_CanFormExact ==
    call.op = "canFormWordWithBoard" =>
        /\ ret = (Shortfall(call.word, call.rackLetters, call.boardLetters)
                      <= call.wildcards)
        /\ \A p \in Reorderings(call.word) :
               canFormWordWithBoard(p, call.rackLetters, call.wildcards,
                                    call.boardLetters) = ret

\* CAT is formed from the rack CA and one wildcard.
C1_Witness ==
    /\ call.op = "canFormWordWithBoard"
    /\ call.word = <<"C", "A", "T">>
    /\ call.rackLetters = <<"C", "A">>
    /\ call.boardLetters = <<>>
    /\ call.wildcards = 1
    /\ ret = TRUE

\* the loaded vocabulary
Vocabulary == Range(words)

\* the word texts of a result sequence
WordsOf(r) == { r[i].word : i \in 1..Len(r) }

\* no word text stands at two places of a result sequence
NoRepeats(r) == \A i, j \in 1..Len(r) : i # j => r[i].word # r[j].word

\* every letter of w is in rack at least as often as in w
IsSubMultiset(w, rack) == \A c \in Range(w) : Count(w, c) <= Count(rack, c)

\* a stands before b lexicographically
LexLess(a, b) ==
    \E k \in 1..(Len(a) + 1) :
        /\ k <= Len(b)
        /\ \A i \in 1..(k - 1) : a[i] = b[i]
        /\ k <= Len(a) => IndexOf(ALPHABET, a[k]) < IndexOf(ALPHABET, b[k])

ScenarioVocabulary ==
    { <<"C", "A", "T">>, <<"C", "A", "T", "S">>, <<"A", "C", "T">>,
      <<"T", "A", "C", "T">>, <<"C", "A", "T", "T", "Y">> }

\* C2: findWords(letters, minLength) returns exactly the vocabulary words of
\* at least minLength letters whose letters are a sub-multiset of the rack
\* letters, each once; with the vocabulary CAT, CATS, ACT, TACT, CATTY, the
\* rack CAT and minLength 2 it returns ACT (5 points), then CAT (5 points).
C2_FindWordsExact ==
    call.op = "findWords" =>
        /\ WordsOf(ret) =
               { w \in Vocabulary :
                   /\ Len(w) >= call.minLength
                   /\ IsSubMultiset(w, ToUpper(call.letters)) }
        /\ NoRepeats(ret)
        /\ ( /\ Vocabulary = ScenarioVocabulary
             /\ call.letters = <<"C", "A", "T">>
             /\ call.minLength = 2 )
           => ret = << [word |-> <<"A", "C", "T">>, points |-> 5],
                       [word |-> <<"C", "A", "T">>, points |-> 5] >>

\* The first scenario: the rack CAT over the scenario's vocabulary.
C2_Witness ==
    /\ call.op = "findWords"
    /\ Vocabulary = ScenarioVocabulary
    /\ call.letters = <<"C", "A", "T">>
    /\ call.minLength = 2
    /\ Len(ret) = 2

\* the slots pinned to a letter, and the slots no letter may stand on
PinnedSlots(pattern) == { p \in Positions(pattern) : At(pattern, p) # "" }

ForbiddenSlots(lockedEmpty) ==
    { p \in 0..(Len(lockedEmpty) - 1) : At(lockedEmpty, p) }

\* The letters of w, placed from slot s on, that land on slots without a
\* letter and that the regular letters of the rack do not cover, counted per
\* letter with multiplicity.
FreeShortfall(w, s, pattern, regular) ==
    SumOver(Range(w),
            [c \in Range(w) |->
                LET need == Cardinality({ i \in 0..(Len(w) - 1) :
                                /\ At(w, i) = c
                                /\ At(pattern, s + i) = "" })
                    d == need - Count(regular, c)
                IN  IF d > 0 THEN d ELSE 0])

\* w can be anchored at start offset s.
AnchoredAt(w, s, pattern, lockedEmpty, rackLetters) ==
    LET pinned == PinnedSlots(pattern)
        usable == Positions(pattern) \ ForbiddenSlots(lockedEmpty)
        e == s + Len(w) - 1
    IN  /\ pinned # {}
        /\ usable # {}
        /\ Min(usable) <= s
        /\ s <= Min(pinned)
        /\ Max(pinned) <= e
        /\ e <= Max(usable)
        /\ (s..e) \cap ForbiddenSlots(lockedEmpty) = {}
        /\ \A p \in pinned \cap (s..e) : At(w, p - s) = At(pattern, p)
        /\ FreeShortfall(w, s, pattern, RegularLetters(rackLetters))
               <= CountWildcards(rackLetters)

\* w is a match of the anchor search.
Anchored(w, pattern, lockedEmpty, rackLetters) ==
    LET pinned == PinnedSlots(pattern)
        usable == Positions(pattern) \ ForbiddenSlots(lockedEmpty)
    IN  /\ pinned # {}
        /\ usable # {}
        /\ Len(w) >= 2
        /\ Len(w) >= Max(pinned) - Min(pinned) + 1
        /\ Len(w) <= Max(usable) - Min(usable) + 1
        /\ \E s \in Positions(pattern) :
               AnchoredAt(w, s, pattern, lockedEmpty, rackLetters)

\* C3: findPatternMatches returns a vocabulary word exactly when its length
\* is between max(2, lastPinned - firstPinned + 1) and lastFree - firstFree
\* + 1 and it can be anchored at some start offset: between firstFree and
\* firstPinned, ending between lastPinned and lastFree, on no forbidden slot,
\* agreeing with every pinned slot it covers, its letters on free slots
\* formable from the rack's regular letters and wildcards. With the pattern
\* [_,_,A,_,_], the rack CTBT and the vocabulary CAT it returns CAT at start
\* offset 1 and nothing else.
C3_PatternSoundComplete ==
    call.op = "findPatternMatches" =>
        /\ WordsOf(ret) =
               { w \in Vocabulary :
                   Anchored(w, call.pattern, call.lockedEmpty,
                            call.rackLetters) }
        /\ ( /\ Vocabulary = { <<"C", "A", "T">> }
             /\ call.pattern = <<"", "", "A", "", "">>
             /\ call.lockedEmpty = <<FALSE, FALSE, FALSE, FALSE, FALSE>>
             /\ call.rackLetters = <<"C", "T", "B", "T">> )
           => ret = << [word |-> <<"C", "A", "T">>, points |-> 5,
                        startPos |-> 1] >>

\* The pattern scenario: CAT on [_,_,A,_,_] with the rack CTBT.
C3_Witness ==
    /\ call.op = "findPatternMatches"
    /\ Vocabulary = { <<"C", "A", "T">> }
    /\ call.pattern = <<"", "", "A", "", "">>
    /\ call.lockedEmpty = <<FALSE, FALSE, FALSE, FALSE, FALSE>>
    /\ call.rackLetters = <<"C", "T", "B", "T">>
    /\ Len(ret) = 1

\* C4: for every result of findPatternMatches, every pinned slot of the
\* pattern lies within the slots the word covers from its startPos on and
\* holds the word's letter at that slot, and no forbidden slot lies within
\* the slots the word covers.
C4_PatternFidelity ==
    call.op = "findPatternMatches" =>
        \A i \in 1..Len(ret) :
            LET S == ret[i].startPos
                E == S + Len(ret[i].word) - 1
            IN  /\ \A P \in PinnedSlots(call.pattern) :
                       /\ P \in S..E
                       /\ At(ret[i].word, P - S) = At(call.pattern, P)
                /\ \A F \in ForbiddenSlots(call.lockedEmpty) : F \notin S..E

\* A word that starts before the first pinned slot and ends at the last one,
\* just before a forbidden slot.
C4_Witness ==
    /\ call.op = "findPatternMatches"
    /\ call.pattern = <<"", "A", "T", "">>
    /\ call.lockedEmpty = <<FALSE, FALSE, FALSE, TRUE>>
    /\ \E i \in 1..Len(ret) :
           ret[i].word = <<"C", "A", "T">> /\ ret[i].startPos = 0

\* The words that pass the filters of a filtered search, whatever the rack.
PassFilters(minLength, filters) ==
    { w \in Vocabulary :
        /\ Len(w) >= minLength
        /\ filters.startsWith # <<>> =>
               StartsWith(w, ToUpper(filters.startsWith))
        /\ filters.endsWith # <<>> => EndsWith(w, ToUpper(filters.endsWith))
        /\ filters.contains # <<>> => Includes(w, ToUpper(filters.contains)) }

\* the filter strings, as one pool of free letters
FilterLetters(filters) ==
    ToUpper(filters.startsWith) \o ToUpper(filters.endsWith)
        \o ToUpper(filters.contains)

\* C5: with a rack that is not empty, findWordsWithFilters returns exactly
\* the vocabulary words of at least minLength letters that pass every filter
\* that is set and that can be formed from the regular rack letters, the
\* wildcards and the filter strings as free letters; each of them is
\* returned, however many there are.
C5_CombinedExact ==
    (call.op = "findWordsWithFilters" /\ call.letters # <<>>) =>
        LET expected ==
                { w \in PassFilters(call.minLength, call.filters) :
                    Shortfall(w, RegularLetters(call.letters),
                              FilterLetters(call.filters))
                        <= CountWildcards(call.letters) }
        IN  /\ WordsOf(ret) = expected
            /\ Len(ret) = Cardinality(expected)

\* A search with two wildcards that finds more words than the ceiling of a
\* filter-only search, the filter's letter being free.
C5_Witness ==
    /\ call.op = "findWordsWithFilters"
    /\ call.letters = <<"?", "?">>
    /\ call.filters.startsWith = <<"A">>
    /\ Len(ret) > FilterOnlyLimit

\* a stands before b in the order of the rack searches: more points, or as
\* many points and longer, or as many points and as long and first
\* lexicographically
RackOrderBefore(a, b) ==
    \/ a.points > b.points
    \/ a.points = b.points /\ Len(a.word) > Len(b.word)
    \/ a.points = b.points /\ Len(a.word) = Len(b.word)
           /\ LexLess(a.word, b.word)

\* C6: with an empty rack and a filter set, findWordsWithFilters returns
\* the first min(200, n) of the n vocabulary words of at least minLength
\* letters that pass every filter that is set, in the order points
\* descending, length descending, lexicographic ascending; it checks nothing
\* against the rack, returns at most 200 entries, and returns none when no
\* word passes the filters.
C6_FilterOnlyFirst200 ==
    ( /\ call.op = "findWordsWithFilters"
      /\ call.letters = <<>>
      /\ call.filters # NoFilters ) =>
        LET all == PassFilters(call.minLength, call.filters)
            n == Cardinality(all)
        IN  /\ WordsOf(ret) \subseteq all
            /\ NoRepeats(ret)
            /\ Len(ret) = IF n < 200 THEN n ELSE 200
            /\ Len(ret) <= 200
            /\ \A i \in 1..Len(ret) :
                   ret[i].points = calculateWordPoints(ret[i].word)
            /\ \A i, j \in 1..Len(ret) :
                   i < j => RackOrderBefore(ret[i], ret[j])
            /\ \A w \in all \ WordsOf(ret) :
                   \A i \in 1..Len(ret) : RackOrderBefore(ret[i], Entry(w))
            /\ all = {} => ret = <<>>

\* A filter-only search that more than 200 words pass.
C6_Witness ==
    /\ call.op = "findWordsWithFilters"
    /\ call.letters = <<>>
    /\ call.filters.startsWith = <<"A">>
    /\ Cardinality(PassFilters(call.minLength, call.filters)) > 200
    /\ Len(ret) = 200

\* C7: what findWords and findWordsWithFilters return is non-increasing in
\* points; among entries of equal points, non-increasing in word length;
\* among entries of equal points and length, strictly increasing
\* lexicographically.
C7_RackSortOrder ==
    call.op \in {"findWords", "findWordsWithFilters"} =>
        \A i, j \in 1..Len(ret) :
            i < j =>
                /\ ret[i].points >= ret[j].points
                /\ ret[i].points = ret[j].points =>
                       Len(ret[i].word) >= Len(ret[j].word)
                /\ ( /\ ret[i].points = ret[j].points
                     /\ Len(ret[i].word) = Len(ret[j].word) )
                   => LexLess(ret[i].word, ret[j].word)

\* A result with TATA before CA, both of 4 points, and TA after AT, both of
\* 2 points and 2 letters.
C7_Witness ==
    /\ call.op = "findWordsWithFilters"
    /\ \E i, j \in 1..Len(ret) :
           /\ i < j
           /\ ret[i].word = <<"T", "A", "T", "A">>
           /\ ret[j].word = <<"C", "A">>
    /\ \E i, j \in 1..Len(ret) :
           /\ i < j
           /\ ret[i].word = <<"A", "T">>
           /\ ret[j].word = <<"T", "A">>

\* C8: what findPatternMatches returns is non-increasing in points and,
\* among entries of equal points, strictly increasing lexicographically,
\* whatever the lengths of the words.
C8_PatternSortOrder ==
    call.op = "findPatternMatches" =>
        \A i, j \in 1..Len(ret) :
            i < j =>
                /\ ret[i].points >= ret[j].points
                /\ ret[i].points = ret[j].points =>
                       LexLess(ret[i].word, ret[j].word)

\* A result with CA before TATA: equal points, the shorter word first.
C8_Witness ==
    /\ call.op = "findPatternMatches"
    /\ \E i, j \in 1..Len(ret) :
           /\ i < j
           /\ ret[i].word = <<"C", "A">>
           /\ ret[j].word = <<"T", "A", "T", "A">>
           /\ ret[i].points = ret[j].points

\* the queries that return a sequence of entries, each with its word
EntryQueries ==
    { "findWords", "findWordsWithFilters", "findPatternMatches",
      "findAnagrams", "findExtensions", "findWordsContaining",
      "getWordsByLength", "getQWithoutU", "getWordsWithLetter",
      "getVowelHeavyWords" }

\* the words a query returned
ReturnedWords ==
    IF call.op \in EntryQueries THEN WordsOf(ret)
    ELSE IF call.op = "getRandomPatternWord" THEN WordsOf(ret)
    ELSE IF call.op = "getRandomWord" THEN Range(ret)
    ELSE {}

\* C9: every word that a search returns (findWords, findWordsWithFilters,
\* findPatternMatches, getRandomPatternWord, findAnagrams, findExtensions,
\* the category queries) is in the loaded vocabulary: isValid is true of it.
C9_ReturnedWordsValid ==
    \A w \in ReturnedWords : isValid(Dictionary, w)

\* findExtensions of A with the letter T returns AT and TA.
C9_Witness ==
    /\ call.op = "findExtensions"
    /\ call.baseWord = <<"A">>
    /\ call.availableLetters = <<"T">>
    /\ WordsOf(ret) = { <<"A", "T">>, <<"T", "A">> }

\* C10: no word text is twice in what findWords, findWordsWithFilters,
\* findPatternMatches, findAnagrams or findExtensions return, also when the
\* rack repeats a letter and when a word fits the pattern at several start
\* offsets.
C10_NoDuplicates ==
    call.op \in { "findWords", "findWordsWithFilters", "findPatternMatches",
                  "findAnagrams", "findExtensions" } =>
        NoRepeats(ret)

\* AA fits [_,A,_] at the start offsets 0 and 1, and is returned once.
C10_Witness ==
    /\ call.op = "findPatternMatches"
    /\ call.pattern = <<"", "A", "">>
    /\ call.lockedEmpty = <<FALSE, FALSE, FALSE>>
    /\ call.rackLetters = <<"?">>
    /\ AnchoredAt(<<"A", "A">>, 0, call.pattern, call.lockedEmpty,
                  call.rackLetters)
    /\ AnchoredAt(<<"A", "A">>, 1, call.pattern, call.lockedEmpty,
                  call.rackLetters)
    /\ Cardinality({ i \in 1..Len(ret) : ret[i].word = <<"A", "A">> }) = 1

\* C11 as stated: every entry that
\* findWords or findWordsWithFilters returns, with any filters and in any
\* mode, can be formed from the rack's letters and wildcards alone.
C11_FormableFromRackAlone ==
    call.op \in {"findWords", "findWordsWithFilters"} =>
        \A i \in 1..Len(ret) :
            canFormWord(ret[i].word, RegularLetters(call.letters),
                        CountWildcards(call.letters))

\* the free letters of a rack search: the filter strings of
\* findWordsWithFilters, none for findWords
FreeLetters ==
    IF call.op = "findWordsWithFilters" THEN FilterLetters(call.filters)
    ELSE <<>>

\* C11: every entry that findWords returns, and every entry that
\* findWordsWithFilters returns for a rack that is not empty, can be formed
\* from the rack's regular letters, its wildcards and the filter strings as
\* free letters (none for findWords): the letters of the word that the free
\* letters and the rack do not cover number at most the wildcards.
C11_FormableWithFreeLetters ==
    ( \/ call.op = "findWords"
      \/ call.op = "findWordsWithFilters" /\ call.letters # <<>> ) =>
        \A i \in 1..Len(ret) :
            Shortfall(ret[i].word, RegularLetters(call.letters), FreeLetters)
                <= CountWildcards(call.letters)

\* With the rack ? and the filter contains A, AA is returned: one A is the
\* filter's, the other the wildcard's; the rack alone does not form it.
C11_Witness ==
    /\ call.op = "findWordsWithFilters"
    /\ call.letters = <<"?">>
    /\ call.filters = [startsWith |-> <<>>, endsWith |-> <<>>,
                       contains |-> <<"A">>]
    /\ <<"A", "A">> \in WordsOf(ret)
    /\ ~canFormWord(<<"A", "A">>, <<>>, 1)

\* the queries that return a sequence, or null or one value
SequenceQueries == EntryQueries \cup {"getRandomPatternWord", "getRandomWord"}

\* C12: while the store's loaded flag is false (before load() is called,
\* between the chunk yields of a load, after a failed load) every query
\* returns its empty value: isValid false, validate valid = false with 0
\* points, the others the empty list or null; nothing of a partially
\* loaded vocabulary shows in a result.
C12_NotLoadedEmpty ==
    (~loaded /\ call.op # "none") =>
        /\ call.op = "isValid" => ret = FALSE
        /\ call.op = "validate" => (ret.valid = FALSE /\ ret.points = 0)
        /\ call.op \in SequenceQueries => ret = <<>>
        /\ call.op \in SequenceQueries \cup {"isValid", "validate"}

\* findWords for the rack CAT between two chunks of a load, when CAT and
\* ACT are in the word set already.
C12_Witness ==
    /\ ~loaded
    /\ loading
    /\ <<"C", "A", "T">> \in Vocabulary
    /\ call.op = "findWords"
    /\ call.letters = <<"C", "A", "T">>
    /\ ret = <<>>

\* C13: for a pattern without a pinned slot, whatever the lockedEmpty array
\* and the rack, findPatternMatches returns the empty list and
\* getRandomPatternWord returns null.
C13_AnchorMandatory ==
    ( /\ call.op \in {"findPatternMatches", "getRandomPatternWord"}
      /\ \A i \in 1..Len(call.pattern) : call.pattern[i] = "" )
    => ret = <<>>

\* No slot is pinned or locked, the rack is two wildcards and the vocabulary
\* has words of two letters: nothing is returned.
C13_Witness ==
    /\ call.op = "findPatternMatches"
    /\ call.pattern = <<"", "", "">>
    /\ call.lockedEmpty = <<FALSE, FALSE, FALSE>>
    /\ call.rackLetters = <<"?", "?">>
    /\ <<"T", "A">> \in Vocabulary
    /\ ret = <<>>

\* the (word, startPos) pairs of a result of findPatternMatches
PlacementsOf(r) ==
    { [word |-> r[i].word, startPos |-> r[i].startPos] : i \in 1..Len(r) }

\* what getRandomPatternWord picks from, for the pattern of the call
Candidates == Range(matchingWords(Dictionary, call.pattern, call.lockedEmpty))

\* C14 as stated: for every rack, the (word, startPos) pairs that
\* findPatternMatches returns are the set that getRandomPatternWord picks
\* from for the same pattern and lockedEmpty array.
C14_SameCandidatesForEveryRack ==
    call.op = "findPatternMatches" => PlacementsOf(ret) = Candidates

\* a rack of as many wildcards as the pattern has slots
WildRack(pattern) == [i \in 1..Len(pattern) |-> "?"]

\* C14: the set that getRandomPatternWord picks from is the set of (word,
\* startPos) pairs that findPatternMatches returns for the same pattern and
\* lockedEmpty array and a rack of as many wildcards as the pattern has
\* slots; for any rack the words that findPatternMatches returns are among
\* the words of that set; getRandomPatternWord returns null exactly when the
\* set is empty and a member of it otherwise.
C14_SameCandidatesForWildRack ==
    /\ call.op = "getRandomPatternWord" =>
           /\ Candidates =
                  PlacementsOf(findPatternMatches(Dictionary, call.pattern,
                                   call.lockedEmpty, WildRack(call.pattern)))
           /\ (ret = <<>>) = (Candidates = {})
           /\ ret # <<>> => (Len(ret) = 1 /\ ret[1] \in Candidates)
    /\ call.op = "findPatternMatches" =>
           WordsOf(ret) \subseteq { c.word : c \in Candidates }

\* AT is picked for [_,A,_,_], at start offset 1.
C14_Witness ==
    /\ call.op = "getRandomPatternWord"
    /\ call.pattern = <<"", "A", "", "">>
    /\ call.lockedEmpty = <<FALSE, FALSE, FALSE, FALSE>>
    /\ ret = << [word |-> <<"A", "T">>, startPos |-> 1] >>

\* the sum of the letter values of a word
WordValue(w) == SumOver(1..Len(w), [i \in 1..Len(w) |-> LetterValue(w[i])])

\* The value of the letters of target that wildcards supply in a rack
\* search: per letter, the letters that the free letters and the rack do not
\* cover.
WildcardValue(target, rack, free) ==
    SumOver(Range(target),
            [c \in Range(target) |->
                LET d == Count(target, c) - Count(free, c) - Count(rack, c)
                IN  IF d > 0 THEN d * LetterValue(c) ELSE 0])

\* The value of the letters of w, placed from slot s on, that wildcards
\* supply in a pattern search.
PatternWildcardValue(w, s, pattern, regular) ==
    SumOver(Range(w),
            [c \in Range(w) |->
                LET need == Cardinality({ i \in 0..(Len(w) - 1) :
                                /\ At(w, i) = c
                                /\ At(pattern, s + i) = "" })
                    d == need - Count(regular, c)
                IN  IF d > 0 THEN d * LetterValue(c) ELSE 0])

\* C15: a wildcard contributes 0 points. In each result of
\* findWordsWithFilters and findPatternMatches whose word needs a letter that
\* neither the free letters nor the rack's regular letters supply, the
\* reported points are the sum of the letter values of the word less the
\* values of the letters that wildcards supply.
C15_WildcardsScoreZero ==
    /\ call.op = "findWordsWithFilters" /\ call.letters # <<>> =>
           \A i \in 1..Len(ret) :
               Shortfall(ret[i].word, RegularLetters(call.letters),
                         FilterLetters(call.filters)) > 0 =>
                   ret[i].points =
                       WordValue(ret[i].word)
                           - WildcardValue(ret[i].word,
                                           RegularLetters(call.letters),
                                           FilterLetters(call.filters))
    /\ call.op = "findPatternMatches" =>
           \A i \in 1..Len(ret) :
               FreeShortfall(ret[i].word, ret[i].startPos, call.pattern,
                             RegularLetters(call.rackLetters)) > 0 =>
                   ret[i].points =
                       WordValue(ret[i].word)
                           - PatternWildcardValue(ret[i].word,
                                 ret[i].startPos, call.pattern,
                                 RegularLetters(call.rackLetters))

\* a and b hold the same letters, each as often
SameLetters(a, b) ==
    \A c \in Range(a) \cup Range(b) : Count(a, c) = Count(b, c)

\* points never rise along the sequence
PointsNonIncreasing(r) ==
    \A i, j \in 1..Len(r) : i < j => r[i].points >= r[j].points

\* C16: findAnagrams(word) returns exactly the vocabulary words that have
\* the length and the letters, each as often, of the input in upper case and
\* are not that input itself, whether or not the input is in the vocabulary;
\* each once, in a sequence whose points never rise.
C16_AnagramsExact ==
    call.op = "findAnagrams" =>
        LET upper == ToUpper(call.word)
        IN  /\ WordsOf(ret) =
                   { w \in Vocabulary :
                       /\ Len(w) = Len(upper)
                       /\ SameLetters(w, upper)
                       /\ w # upper }
            /\ NoRepeats(ret)
            /\ PointsNonIncreasing(ret)

\* The anagrams of cat, over a vocabulary with CAT and ACT: ACT alone.
C16_Witness ==
    /\ call.op = "findAnagrams"
    /\ call.word = <<"c", "a", "t">>
    /\ <<"C", "A", "T">> \in Vocabulary
    /\ ret = << [word |-> <<"A", "C", "T">>, points |-> 5] >>

\* the offsets at which base stands in w
Occurrences(w, base) ==
    { k \in 0..(Len(w) - Len(base)) : SubSeq(w, k + 1, k + Len(base)) = base }

\* w without the n letters from offset k on
Without(w, k, n) == SubSeq(w, 1, k) \o SubSeq(w, k + n + 1, Len(w))

\* C17: findExtensions(base, available), both taken in upper case, returns
\* exactly the vocabulary words that are longer than base, hold base as a
\* contiguous substring, and whose letters, less the letters of base, are
\* among the available letters, each counted as often as it occurs; whichever
\* occurrence of base is taken out of the word the answer is the same; each
\* word is returned once, in a sequence whose points never rise.
C17_ExtensionsExact ==
    call.op = "findExtensions" =>
        LET base == ToUpper(call.baseWord)
            available == ToUpper(call.availableLetters)
        IN  /\ WordsOf(ret) =
                   { w \in Vocabulary :
                       /\ Len(w) > Len(base)
                       /\ Occurrences(w, base) # {}
                       /\ \A c \in Range(w) :
                              Count(w, c) - Count(base, c)
                                  <= Count(available, c) }
            /\ \A w \in Vocabulary :
                   Len(w) > Len(base) =>
                       \A k \in Occurrences(w, base) :
                           IsSubMultiset(Without(w, k, Len(base)), available)
                               <=> w \in WordsOf(ret)
            /\ NoRepeats(ret)
            /\ PointsNonIncreasing(ret)

\* The extensions of ta with the letters A and T: TATA, which holds TA at
\* two places, before TAT.
C17_Witness ==
    /\ call.op = "findExtensions"
    /\ call.baseWord = <<"t", "a">>
    /\ call.availableLetters = <<"A", "T">>
    /\ Occurrences(<<"T", "A", "T", "A">>, <<"T", "A">>) = {0, 2}
    /\ ret = << [word |-> <<"T", "A", "T", "A">>, points |-> 4],
                [word |-> <<"T", "A", "T">>, points |-> 3] >>

\* what the query of call returns from the store this
Answer(this) ==
    CASE call.op = "findWords" ->
             findWords(this, call.letters, call.minLength)
      [] call.op = "findWordsWithFilters" ->
             findWordsWithFilters(this, call.letters, call.minLength,
                                  call.filters)
      [] call.op = "findPatternMatches" ->
             findPatternMatches(this, call.pattern, call.lockedEmpty,
                                call.rackLetters)
      [] call.op = "findAnagrams" -> findAnagrams(this, call.word)
      [] call.op = "findExtensions" ->
             findExtensions(this, call.baseWord, call.availableLetters)
      [] call.op = "findWordsContaining" ->
             findWordsContaining(this, call.letters, call.maxResults)
      [] call.op = "getWordsByLength" -> getWordsByLength(this, call.length)
      [] call.op = "getQWithoutU" -> getQWithoutU(this)
      [] call.op = "getWordsWithLetter" ->
             getWordsWithLetter(this, call.letter, call.maxLength)
      [] call.op = "getVowelHeavyWords" ->
             getVowelHeavyWords(this, call.ratio[1], call.ratio[2],
                                call.minLength)

\* Other orders in which the words ws may have been inserted: the reverse
\* order, and each order that exchanges two neighbours.
OtherInsertionOrders(ws) ==
    { [i \in 1..Len(ws) |-> ws[Len(ws) + 1 - i]] }
        \cup { [i \in 1..Len(ws) |->
                   IF i = k THEN ws[k + 1]
                   ELSE IF i = k + 1 THEN ws[k] ELSE ws[i]] :
               k \in 1..(Len(ws) - 1) }

\* A store of the same words, inserted in another order, returns to the
\* queries ops what this store returned.
OrderFree(ops) ==
    call.op \in ops =>
        \A other \in OtherInsertionOrders(words) :
            Answer([Dictionary EXCEPT !.words = other]) = ret

\* C18: the insertion order of the store does not show in a result. For
\* every search and category query, two stores that hold the same words,
\* inserted in different orders, return the same sequence, element by
\* element, for the same inputs.
C18_InsertionOrderFree == OrderFree(EntryQueries)

SearchOperations ==
    { "findWords", "findWordsWithFilters", "canFormWord",
      "canFormWordWithBoard", "canFormFromRack", "findPatternMatches",
      "getRandomPatternWord", "findAnagrams", "findExtensions" }

ValidOffsets(w, pattern, lockedEmpty, rackLetters) ==
    { s \in Positions(pattern) :
        AnchoredAt(w, s, pattern, lockedEmpty, rackLetters) }

\* C20: the first valid offset wins. For every word in the result of
\* findPatternMatches the reported startPos is the smallest start offset,
\* between the first free slot and the first pinned slot, at which the word
\* passes the span, forbidden-slot, pinned-letter and rack checks; and the
\* word is reported once, at that offset.
C20_FirstValidOffsetWins ==
    call.op = "findPatternMatches" =>
        \A i \in 1..Len(ret) :
            LET valid == ValidOffsets(ret[i].word, call.pattern,
                                      call.lockedEmpty, call.rackLetters)
            IN  /\ valid # {}
                /\ ret[i].startPos = Min(valid)
                /\ \A j \in 1..Len(ret) :
                       ret[j].word = ret[i].word => j = i

\* With the pattern [_,_,A,_,_] and the rack ?, AA does not reach the pinned
\* slot from offset 0 and fits at the offsets 1 and 2: it is reported at 1.
C20_Witness ==
    /\ call.op = "findPatternMatches"
    /\ call.pattern = <<"", "", "A", "", "">>
    /\ call.lockedEmpty = <<FALSE, FALSE, FALSE, FALSE, FALSE>>
    /\ call.rackLetters = <<"?">>
    /\ ValidOffsets(<<"A", "A">>, call.pattern, call.lockedEmpty,
                    call.rackLetters) = {1, 2}
    /\ \E i \in 1..Len(ret) :
           ret[i].word = <<"A", "A">> /\ ret[i].startPos = 1

\* C21: the trivial reject. findWordsWithFilters, called with the three
\* filters empty and a rack of fewer symbols than minLength, the empty rack
\* among them, returns the empty list; and so does LetterRack.findWords with
\* fewer than 2 tiles and no filter.
C21_TrivialReject ==
    /\ ( /\ call.op = "findWordsWithFilters"
         /\ call.filters = NoFilters
         /\ Len(call.letters) < call.minLength ) => ret = <<>>
    /\ ( /\ call.op = "LetterRack.findWords"
         /\ call.filters = NoFilters
         /\ Len(getLetters(call.tiles)) < 2 ) => ret = <<>>

\* C22: the minimum length is clamped to 2. findWords and
\* findWordsWithFilters, called with a minLength below 2, return what they
\* return with minLength = 2, and so no word of fewer than 2 letters, even
\* when the vocabulary holds words of one letter.
C22_MinLengthClamped ==
    /\ (call.op = "findWords" /\ call.minLength < 2) =>
           /\ ret = findWords(Dictionary, call.letters, 2)
           /\ \A i \in 1..Len(ret) : Len(ret[i].word) >= 2
    /\ (call.op = "findWordsWithFilters" /\ call.minLength < 2) =>
           /\ ret = findWordsWithFilters(Dictionary, call.letters, 2,
                                         call.filters)
           /\ \A i \in 1..Len(ret) : Len(ret[i].word) >= 2

\* the target, the rack letters and the free letters of a canForm call
CanFormTarget ==
    IF call.op = "canFormFromRack" THEN call.needed ELSE call.word

CanFormRack ==
    CASE call.op = "canFormWord" -> call.letters
      [] call.op = "canFormWordWithBoard" -> call.rackLetters
      [] call.op = "canFormFromRack" -> call.available

CanFormFree ==
    IF call.op = "canFormWordWithBoard" THEN call.boardLetters ELSE <<>>

\* what the called canForm function returns for the call's target and pools
\* with wildcards wildcards
CanFormWith(wildcards) ==
    CASE call.op = "canFormWord" ->
             canFormWord(call.word, call.letters, wildcards)
      [] call.op = "canFormWordWithBoard" ->
             canFormWordWithBoard(call.word, call.rackLetters, wildcards,
                                  call.boardLetters)
      [] call.op = "canFormFromRack" ->
             canFormFromRack(call.needed, call.available, wildcards)

\* C23: the edge cases of canFormWord, canFormWordWithBoard and
\* canFormFromRack. For the empty target each returns true, whatever the
\* rack, the free letters and the number of wildcards. For a number of
\* wildcards below 0 each returns what it returns for 0: true exactly when
\* the pools cover every letter of the target. The wildcard counter of the
\* function is never below 0.
C23_CanFormEdges ==
    call.op \in {"canFormWord", "canFormWordWithBoard", "canFormFromRack"} =>
        /\ CanFormTarget = <<>> => ret.value = TRUE
        /\ call.wildcards < 0 =>
               /\ ret.value = CanFormWith(0)
               /\ ret.value =
                      (Shortfall(CanFormTarget, CanFormRack, CanFormFree) = 0)
        /\ \A k \in 1..Len(ret.counter) : ret.counter[k] >= 0

\* canFormFromRack with -1 wildcards and a rack that covers the target AT:
\* true, as with 0 wildcards.
C23_Witness ==
    /\ call.op = "canFormFromRack"
    /\ call.needed = <<"A", "T">>
    /\ call.available = <<"T", "A">>
    /\ call.wildcards = -1
    /\ ret.value = TRUE
    /\ ret.counter = <<0>>

\* The slots of w, counted from 0, that the filters match when the contains
\* filter is matched at offset k: the prefix, the suffix and that occurrence.
MatchedSlots(w, filters, k) ==
    (IF filters.startsWith # <<>> THEN 0..(Len(filters.startsWith) - 1)
     ELSE {})
        \cup (IF filters.endsWith # <<>>
              THEN (Len(w) - Len(filters.endsWith))..(Len(w) - 1)
              ELSE {})
        \cup (IF filters.contains # <<>>
              THEN k..(k + Len(filters.contains) - 1)
              ELSE {})

\* the letters of w on the slots that are not in covered, in order
LettersOff(w, covered) ==
    LET slots == SelectSeq([i \in 1..Len(w) |-> i - 1],
                           LAMBDA p : p \notin covered)
    IN  [j \in 1..Len(slots) |-> At(w, slots[j])]

\* C24: in combined mode the free letters are only the letters that the
\* filters match. For every word that findWordsWithFilters returns for a rack
\* that is not empty, the letters of the word on the slots outside the
\* matched prefix, the matched suffix and an occurrence of the contains
\* string can be formed from the rack's regular letters and wildcards; and so
\* when several filters are set and match the same letters of the word.
C24_OnlyMatchedLettersFree ==
    (call.op = "findWordsWithFilters" /\ call.letters # <<>>) =>
        \A i \in 1..Len(ret) :
            LET w == ret[i].word
                at == IF call.filters.contains # <<>>
                      THEN Occurrences(w, ToUpper(call.filters.contains))
                      ELSE {0}
            IN  \E k \in at :
                    canFormWord(LettersOff(w, MatchedSlots(w, call.filters, k)),
                                RegularLetters(call.letters),
                                CountWildcards(call.letters))

\* the callers whose load() is under way: fetching, or between two chunks
InProgress == { c \in DOMAIN pc : pc[c].at \in {"fetch", "yield"} }

\* C25: the store is loaded once and read-only from then on. Once loaded is
\* true no step, be it a further load() call or a query, changes the words
\* or sets loaded to false; a load() call made while loaded or loading is
\* true starts no fetch; so at most one load is under way at any time.
C25_LoadedOnce ==
    [][ /\ loaded => (loaded' /\ words' = words)
        /\ (loaded \/ loading) =>
               \A c \in DOMAIN pc :
                   pc'[c].at = "fetch" => pc[c].at = "fetch"
        /\ Cardinality(InProgress) <= 1
        /\ Cardinality(InProgress') <= 1 ]_vars

\* The store is loaded; both callers' load() calls have resolved, of which
\* one at least made no fetch; and a query has been answered from the store.
C25_Witness ==
    /\ loaded
    /\ \A c \in DOMAIN pc : pc[c].at = "resolved"
    /\ Cardinality(DOMAIN pc) = 2
    /\ call.op = "findWords"
    /\ call.letters = <<"C", "A", "T">>
    /\ ret # <<>>

\* C26: a failed load leaves a clean state that is not loaded. When the
\* fetch fails, or answers with a status that is not OK, load() rejects with
\* loading reset to false and loaded still false; a load() call that follows
\* while no other load is under way starts a new attempt, which can succeed;
\* and loading is true only while a load is under way, so it is never left
\* set after load() has settled.
C26_FailureLeavesNotLoaded ==
    [][ /\ \A c \in DOMAIN pc :
               (pc[c].at # "rejected" /\ pc'[c].at = "rejected") =>
                   /\ pc[c].at = "fetch"
                   /\ ~loaded /\ ~loaded' /\ ~loading'
        /\ \A c \in DOMAIN pc :
               (pc[c].at = "rejected" /\ pc'[c].at # "rejected"
                    /\ ~loaded /\ ~loading) =>
                   (pc'[c].at = "fetch" /\ loading')
        /\ loading' <=> InProgress' # {} ]_vars

\* One caller's load() has failed and stays rejected; the load() the app
\* called after that failure started a new attempt, which succeeded.
C26_Witness ==
    /\ pc["app"].at = "resolved"
    /\ pc["other"].at = "rejected"
    /\ loaded
    /\ ~loading
    /\ words # <<>>

\* C27: whenever a load() promise has resolved, the store is loaded: loaded
\* is true for every caller whose load() has resolved, a second caller whose
\* load() was issued while the first was still under way included.
C27_ResolvedMeansLoaded ==
    \A c \in DOMAIN pc : pc[c].at = "resolved" => loaded

\* a rack of letters only, with at least one tile
LiteralRack(letters) == letters # <<>> /\ "?" \notin Range(letters)

\* C28: the two rack searches agree. For a rack of letters without
\* wildcards that is not empty and a minLength of at least 1, what findWords
\* returns is the sequence that findWordsWithFilters returns for the same
\* rack and minLength without filters, and the other way round: the same
\* words with the same points in the same order.
C28_RackSearchesAgree ==
    /\ (call.op = "findWords" /\ LiteralRack(call.letters)
            /\ call.minLength >= 1) =>
           ret = findWordsWithFilters(Dictionary, call.letters,
                                      call.minLength, NoFilters)
    /\ (call.op = "findWordsWithFilters" /\ LiteralRack(call.letters)
            /\ call.minLength >= 1 /\ call.filters = NoFilters) =>
           ret = findWords(Dictionary, call.letters, call.minLength)

\* Both searches have answered the rack CAT with the same words, the
\* three-letter words before the two-letter ones.
C28_Witness ==
    /\ call.op \in {"findWords", "findWordsWithFilters"}
    /\ call.letters = <<"C", "A", "T">>
    /\ call.minLength = 2
    /\ Len(ret) = 5
    /\ ret[1].word = <<"A", "C", "T">>
    /\ ret = findWords(Dictionary, call.letters, 2)
    /\ ret = findWordsWithFilters(Dictionary, call.letters, 2, NoFilters)

\* the start offsets at which w passes the span, forbidden-slot and
\* pinned-letter checks, whatever the rack
PatternValidOffsets(w, pattern, lockedEmpty) ==
    ValidOffsets(w, pattern, lockedEmpty, WildRack(pattern))

\* the letters that the pattern pins
PinnedLetters(pattern) == ToUpper(SelectSeq(pattern, LAMBDA c : c # ""))

\* C29: whether the rack can form a placement does not depend on the offset.
\* For the pattern and lockedEmpty array of a findPatternMatches call and
\* every vocabulary word, the letters needed from the rack are, at every
\* offset that passes the span, forbidden-slot and pinned-letter checks, the
\* letters of the word without the pinned letters, each as often; the word is
\* returned exactly when it has such an offset and the rack covers the
\* letters needed at the leftmost one; and the startPos reported for a word
\* is the startPos that the candidate set of getRandomPatternWord holds for
\* that word.
C29_OffsetFreeFormability ==
    call.op = "findPatternMatches" =>
        \A w \in Vocabulary :
            LET valid == PatternValidOffsets(w, call.pattern, call.lockedEmpty)
            IN  /\ \A s \in valid :
                       SameLetters(LettersNeeded(w, s, call.pattern)
                                       \o PinnedLetters(call.pattern), w)
                /\ (w \in WordsOf(ret)) <=>
                       /\ Len(w) >= 2
                       /\ valid # {}
                       /\ AnchoredAt(w, Min(valid), call.pattern,
                                     call.lockedEmpty, call.rackLetters)
                /\ \A i \in 1..Len(ret) :
                       ret[i].word = w =>
                           /\ [word |-> w, startPos |-> ret[i].startPos]
                                  \in Candidates
                           /\ \A c \in Candidates :
                                  c.word = w => c.startPos = ret[i].startPos

\* With the pattern [_,_,A,_,_] and the rack ?T, AA passes the pattern
\* checks at the offsets 1 and 2 and needs one A from the rack at either; it
\* is reported at 1, where the candidate set has it.
C29_Witness ==
    /\ call.op = "findPatternMatches"
    /\ call.pattern = <<"", "", "A", "", "">>
    /\ call.lockedEmpty = <<FALSE, FALSE, FALSE, FALSE, FALSE>>
    /\ call.rackLetters = <<"?", "T">>
    /\ PatternValidOffsets(<<"A", "A">>, call.pattern, call.lockedEmpty)
           = {1, 2}
    /\ LettersNeeded(<<"A", "A">>, 1, call.pattern) = <<"A">>
    /\ LettersNeeded(<<"A", "A">>, 2, call.pattern) = <<"A">>
    /\ [word |-> <<"A", "A">>, startPos |-> 1] \in PlacementsOf(ret)
    /\ [word |-> <<"A", "A">>, startPos |-> 1] \in Candidates

\* the tiles that a rack is extended by
MoreTiles == {"A", "C", "T", "a", "?"}

\* the racks that have one tile more than letters, at any place
OneTileMore(letters) ==
    { SubSeq(letters, 1, k) \o <<t>> \o SubSeq(letters, k + 1, Len(letters)) :
          k \in 0..Len(letters), t \in MoreTiles }

\* every word of the answer is a word of the answer to each rack that has
\* one tile more
KeptWithOneTileMore ==
    \A larger \in OneTileMore(call.letters) :
        WordsOf(ret) \subseteq
            WordsOf(findWordsWithFilters(Dictionary, larger, call.minLength,
                                         call.filters))

\* C30 as stated: for every rack, the empty rack included, no word that
\* findWordsWithFilters returns is missing from what it returns, for the same
\* filters and minLength, for the rack with one more tile.
C30_MonotoneInRack ==
    call.op = "findWordsWithFilters" => KeptWithOneTileMore

\* C30: for every rack that is not empty, no word that findWordsWithFilters
\* returns is missing from what it returns, for the same filters and
\* minLength, for the rack with one more tile, a letter or a wildcard.
C30_MonotoneInRackWithTiles ==
    (call.op = "findWordsWithFilters" /\ call.letters # <<>>) =>
        KeptWithOneTileMore

\* The rack A with the prefix filter C gives CA; with a T more it gives CAT
\* as well.
C30_Witness ==
    /\ call.op = "findWordsWithFilters"
    /\ call.letters = <<"A">>
    /\ call.minLength = 2
    /\ call.filters = [startsWith |-> <<"C">>, endsWith |-> <<>>,
                       contains |-> <<>>]
    /\ WordsOf(ret) = { <<"C", "A">> }
    /\ WordsOf(findWordsWithFilters(Dictionary, <<"A", "T">>, 2,
                                    call.filters))
           = { <<"C", "A">>, <<"C", "A", "T">> }

====
